---------------------------- MODULE Spec2Model ----------------------------
(***************************************************************************)
(* A model of skgstat/MetricSpace.py: the distance spaces (MetricSpace,    *)
(* MetricSpacePair), the shared find_closest query, and the two samplers   *)
(* (ProbabalisticMetricSpace, RasterEquidistantMetricSpace).               *)
(*                                                                         *)
(* Conventions.                                                            *)
(*  - Indices are 0-based as in the source; a TLA+ sequence s holds the    *)
(*    array element a[i] at s[i + 1].                                      *)
(*  - An optional value (None or a value) is the empty set or a singleton. *)
(*  - A distance is carried as an integer code that is a strictly          *)
(*    increasing function of the real distance and maps 0 to 0: the        *)
(*    radicand d^2 for "euclidean" (sqrt is injective and increasing), the *)
(*    distance itself for "cityblock" and "chebyshev", and the numerator   *)
(*    n - ntt of (n - ntt) / n for "russellrao" (n the dimension).  A      *)
(*    cutoff is encoded the same way before it is compared (CutCode).      *)
(*  - A compressed sparse matrix (CSR or CSC) is its shape and, per major  *)
(*    index, the stored <<minor index, value>> pairs in storage order:     *)
(*    the indptr / indices / data arrays cut at indptr.                    *)
(***************************************************************************)
EXTENDS Integers, Sequences, FiniteSets, TLC

(***************************************************************************)
(* Bounds of the model.                                                    *)
(***************************************************************************)
\* largest number of points of a generated coordinate array
MaxN == 3
\* largest cutoff (max_dist) a space is constructed or queried with
MaxCut == 2
\* number of states of the random generator
RndMod == 8

\* the raster is a grid of GridW x GridH points
GridW == 3

GridH == 2

\* the largest number of runs passed to a raster sampler
MaxRuns == 2

\* the largest number of times a dists call that raised is made again
MaxRetries == 1

\* the largest number of reads of cidx and eqidx between dists calls
MaxReads == 2

(***************************************************************************)
(* Optional values and small helpers.                                      *)
(***************************************************************************)
None == {}
Some(x) == {x}
The(o) == CHOOSE x \in o : TRUE

Abs(a) == IF a < 0 THEN 0 - a ELSE a

Range(s) == {s[k] : k \in DOMAIN s}

RECURSIVE SumSeq(_)
SumSeq(s) == IF s = <<>> THEN 0 ELSE Head(s) + SumSeq(Tail(s))

RECURSIVE MaxSeq(_)
MaxSeq(s) ==
    IF s = <<>> THEN 0
    ELSE LET m == MaxSeq(Tail(s)) IN IF Head(s) > m THEN Head(s) ELSE m

RECURSIVE Flatten(_)
Flatten(ss) == IF ss = <<>> THEN <<>> ELSE Head(ss) \o Flatten(Tail(ss))

\* the elements of a finite set of integers in increasing order
RECURSIVE SortSet(_)
SortSet(S) ==
    IF S = {} THEN <<>>
    ELSE LET m == CHOOSE x \in S : \A y \in S : x <= y
         IN  <<m>> \o SortSet(S \ {m})

\* the subsequence of s whose elements satisfy the membership in S
SelectIn(s, S) == SelectSeq(s, LAMBDA x : x \in S)

(***************************************************************************)
(* Inputs: coordinate arrays, metric names, cutoffs.                       *)
(***************************************************************************)
Pts == {<<0, 0>>, <<1, 0>>, <<1, 1>>}

\* the 5 points on a line of the documented scenario
Line5 == << <<0>>, <<1>>, <<2>>, <<3>>, <<10>> >>

GenCoords == UNION {[1..n -> Pts] : n \in 1..MaxN}

CoordInputs == GenCoords \cup {Line5}

Metrics == {"euclidean", "cityblock", "chebyshev", "russellrao"}

Cutoffs == 1..MaxCut

OptCutoffs == {None} \cup {Some(c) : c \in Cutoffs}

(***************************************************************************)
(* scipy.spatial.distance: the metric, pdist, cdist, squareform.           *)
(***************************************************************************)
\* the code of the distance between two points under a named metric
Metric(name, u, v) ==
    CASE name = "euclidean" ->
            SumSeq([k \in DOMAIN u |-> (u[k] - v[k]) * (u[k] - v[k])])
      [] name = "cityblock" ->
            SumSeq([k \in DOMAIN u |-> Abs(u[k] - v[k])])
      [] name = "chebyshev" ->
            MaxSeq([k \in DOMAIN u |-> Abs(u[k] - v[k])])
      [] name = "russellrao" ->
            Len(u) - Cardinality({k \in DOMAIN u : u[k] # 0 /\ v[k] # 0})

\* the code of a cutoff c for distances between points of dimension dim
CutCode(name, c, dim) ==
    CASE name = "euclidean" -> c * c
      [] name = "russellrao" -> c * dim
      [] OTHER -> c

\* pdist: the condensed vector of the distances of the pairs i < j, row-major
pdist(X, name) ==
    Flatten([i \in 1..Len(X) |->
                [j \in 1..(Len(X) - i) |-> Metric(name, X[i], X[i + j])]])

\* cdist: every point of XA against every point of XB
cdist(XA, XB, name) ==
    [i \in 1..Len(XA) |-> [j \in 1..Len(XB) |-> Metric(name, XA[i], XB[j])]]

\* position (1-based) in the condensed vector of the pair i < j (0-based) of n
CondensedIndex(i, j, n) == (n * i - (i * (i + 1)) \div 2) + (j - i - 1) + 1

\* squareform that fills the upper triangle only and does not mirror it
squareform_upper_only(v) ==
    IF Len(v) = 0 THEN << <<0>> >>
    ELSE LET d == CHOOSE n \in 1..(Len(v) + 1) : n * (n - 1) = 2 * Len(v)
         IN  [i \in 1..d |-> [j \in 1..d |->
                 IF i < j THEN v[CondensedIndex(i - 1, j - 1, d)] ELSE 0]]

\* squareform of a condensed vector: the symmetric matrix with zero diagonal
squareform_to_matrix(v) ==
    IF Len(v) = 0 THEN << <<0>> >>
    ELSE LET d == CHOOSE n \in 1..(Len(v) + 1) : n * (n - 1) = 2 * Len(v)
         IN  [i \in 1..d |-> [j \in 1..d |->
                 IF i = j THEN 0
                 ELSE IF i < j THEN v[CondensedIndex(i - 1, j - 1, d)]
                      ELSE v[CondensedIndex(j - 1, i - 1, d)]]]

\* is_valid_dm, as squareform checks a matrix: symmetric with zero diagonal
is_valid_dm(M) ==
    /\ \A i \in DOMAIN M : \A j \in DOMAIN M : M[i][j] = M[j][i]
    /\ \A i \in DOMAIN M : M[i][i] = 0

\* squareform of a square matrix: its upper triangle, row-major
squareform_to_vector(M) ==
    Flatten([i \in 1..Len(M) |-> [j \in 1..(Len(M) - i) |-> M[i][i + j]]])

(***************************************************************************)
(* scipy.spatial.cKDTree and scipy.sparse.                                 *)
(***************************************************************************)
\* cKDTree(data): the tree is the point set it indexes
cKDTree(data) == [data |-> data]

\* a range query that leaves out the pairs exactly at max_distance
sparse_distance_matrix_strict(tree, other, cut) ==
    [shape |-> <<Len(tree.data), Len(other.data)>>,
     triples |-> Flatten([i \in 1..Len(tree.data) |->
        LET js == SelectSeq([j \in 1..Len(other.data) |-> j],
                    LAMBDA j : Metric("euclidean", tree.data[i], other.data[j]) < cut)
        IN  [k \in 1..Len(js) |->
                <<i - 1, js[k] - 1,
                  Metric("euclidean", tree.data[i], other.data[js[k]])>>]])]

\* tree.sparse_distance_matrix(other, max_distance, output_type="coo_matrix"):
\* one (i, j, distance) triple for every pair within max_distance (p = 2),
\* coinciding points (distance 0) included.  cut is the code of max_distance.
sparse_distance_matrix(tree, other, cut) ==
    [shape |-> <<Len(tree.data), Len(other.data)>>,
     triples |-> Flatten([i \in 1..Len(tree.data) |->
        LET js == SelectSeq([j \in 1..Len(other.data) |-> j],
                    LAMBDA j : Metric("euclidean", tree.data[i], other.data[j]) <= cut)
        IN  [k \in 1..Len(js) |->
                <<i - 1, js[k] - 1,
                  Metric("euclidean", tree.data[i], other.data[js[k]])>>]])]

\* coo_matrix.tocsr(): rows cut out of the triples, column indices sorted and
\* duplicate (row, column) keys summed (sum_duplicates); zeros stay stored
tocsr(A) ==
    [sparse |-> TRUE,
     shape |-> A.shape,
     rows |-> [r \in 1..A.shape[1] |->
        LET mine == SelectSeq(A.triples, LAMBDA t : t[1] = r - 1)
            cols == SortSet({mine[k][2] : k \in DOMAIN mine})
        IN  [k \in 1..Len(cols) |->
                <<cols[k],
                  SumSeq([n \in 1..Len(SelectSeq(mine, LAMBDA t : t[2] = cols[k])) |->
                            SelectSeq(mine, LAMBDA t : t[2] = cols[k])[n][3]])>>]]]

\* a dense ndarray wrapped with its kind
Dense(m) == [sparse |-> FALSE, m |-> m]

\* the stored keys of a sparse matrix, the (row, column) pairs, 0-based
StoredKeys(D) ==
    UNION {{<<r - 1, D.rows[r][k][1]>> : k \in DOMAIN D.rows[r]} : r \in DOMAIN D.rows}

\* the value stored under the key (i, j) of a sparse matrix
StoredValue(D, i, j) ==
    LET row == D.rows[i + 1]
    IN  row[CHOOSE k \in DOMAIN row : row[k][1] = j][2]

\* code of np.inf: no distance code is negative
Inf == -1

\* m.toarray(): the empty values left at 0.0 whatever fill_value is
_sparse_dok_get_zero(m, fill_value) ==
    LET items == StoredKeys(m)
    IN  [x \in 1..m.shape[1] |-> [y \in 1..m.shape[2] |->
            IF <<x - 1, y - 1>> \in items
            THEN StoredValue(m, x - 1, y - 1) ELSE 0]]

\* _sparse_dok_get(m, fill_value): like m.toarray() with the empty values set
\* to fill_value; m.items() are the stored (x, y), value of the matrix
_sparse_dok_get(m, fill_value) ==
    LET items == StoredKeys(m)
    IN  [x \in 1..m.shape[1] |-> [y \in 1..m.shape[2] |->
            IF <<x - 1, y - 1>> \in items
            THEN StoredValue(m, x - 1, y - 1) ELSE fill_value]]

\* np.fill_diagonal(a, val)
fill_diagonal(a, val) ==
    [x \in DOMAIN a |-> [y \in DOMAIN a[x] |-> IF x = y THEN val ELSE a[x][y]]]

\* dist_mat[idx, :][:, idx]: the matrix restricted to the rows and columns idx
\* (a sequence of 0-based indices), dense or sparse
Restrict(D, idx) ==
    IF D.sparse
    THEN LET keys == StoredKeys(D)
         IN  [sparse |-> TRUE,
              shape |-> <<Len(idx), Len(idx)>>,
              rows |-> [a \in 1..Len(idx) |->
                 LET ks == SelectSeq([k \in 1..Len(idx) |-> k],
                             LAMBDA k : <<idx[a], idx[k]>> \in keys)
                 IN  [n \in 1..Len(ks) |->
                        <<ks[n] - 1, StoredValue(D, idx[a], idx[ks[n]])>>]]]
    ELSE Dense([a \in 1..Len(idx) |-> [b \in 1..Len(idx) |->
                    D.m[idx[a] + 1][idx[b] + 1]]])

\* stable insertion of the pair p = <<column, distance>> into a sequence
\* sorted by distance: after every pair whose distance is not larger
RECURSIVE InsertStable(_, _)
InsertStable(s, p) ==
    IF s = <<>> THEN <<p>>
    ELSE IF Head(s)[2] <= p[2] THEN <<Head(s)>> \o InsertStable(Tail(s), p)
         ELSE <<p>> \o s

\* np.argsort(selected_dists, kind="stable") applied to the candidates:
\* the <<column, distance>> pairs by increasing distance, ties in input order
RECURSIVE argsort_stable(_)
argsort_stable(s) ==
    IF s = <<>> THEN <<>>
    ELSE InsertStable(argsort_stable(SubSeq(s, 1, Len(s) - 1)), s[Len(s)])

(***************************************************************************)
(* DistanceMethods.find_closest.                                           *)
(***************************************************************************)
\* a guard that rejects only a cutoff larger than the object's own
cutoff_mismatch_larger(self_max_dist, max_dist) ==
    max_dist # None /\ self_max_dist # None /\ The(max_dist) > The(self_max_dist)

\* the guard of lines 45-51: a cutoff is given, the object has its own, and
\* the two differ
cutoff_mismatch(self_max_dist, max_dist) ==
    max_dist # None /\ self_max_dist # None /\ max_dist # self_max_dist

\* the candidates of row idx of the matrix D as <<column, distance>> pairs in
\* storage order; cut is the optional code of the effective cutoff
candidates(D, idx, cut) ==
    IF D.sparse
    THEN D.rows[idx + 1]
    ELSE LET row == D.m[idx + 1]
             all == [c \in 1..Len(row) |-> <<c - 1, row[c]>>]
         IN  IF cut # None
             THEN SelectSeq(all, LAMBDA p : p[2] <= The(cut))
             ELSE all

\* lines 53-70 of find_closest, given the matrix self.dists returned: the
\* candidates, sorted by distance (stable) and cut to N when more than N.
\* N is optional; comparing a size with None raises TypeError.
find_closest(D, idx, cut, N) ==
    LET cand == candidates(D, idx, cut)
        ridx == [k \in DOMAIN cand |-> cand[k][1]]
    IN  IF N = None
        THEN [raised |-> "TypeError", value |-> <<>>]
        ELSE IF Len(ridx) > The(N)
             THEN LET sorted == argsort_stable(cand)
                  IN  [raised |-> "",
                       value |-> [k \in 1..The(N) |-> sorted[k][1]]]
             ELSE [raised |-> "", value |-> ridx]

(***************************************************************************)
(* MetricSpace.                                                            *)
(***************************************************************************)
\* MetricSpace.__init__
MetricSpace(coords, dist_metric, max_dist) ==
    [coords |-> coords, dist_metric |-> dist_metric, max_dist |-> max_dist,
     _tree |-> None, _dists |-> None]

\* the dimension of the points of a space
Dim(self) == Len(self.coords[1])

\* the optional cutoff of a space as a code
SelfCut(self) ==
    IF self.max_dist = None THEN None
    ELSE Some(CutCode(self.dist_metric, The(self.max_dist), Dim(self)))

\* MetricSpace.tree for an euclidean space: the object with its tree cached
MetricSpace_tree(self) ==
    IF self._tree = None
    THEN [self EXCEPT !._tree = Some(cKDTree(self.coords))]
    ELSE self

\* MetricSpace.dists: the object with its distance matrix cached
MetricSpace_dists(self) ==
    IF self._dists # None THEN self
    ELSE IF self.max_dist # None /\ self.dist_metric = "euclidean"
         THEN LET t == MetricSpace_tree(self)
              IN  [t EXCEPT !._dists =
                      Some(tocsr(sparse_distance_matrix(
                              The(t._tree), The(t._tree), The(SelfCut(t)))))]
         ELSE [self EXCEPT !._dists =
                  Some(Dense(squareform_to_matrix(
                                pdist(self.coords, self.dist_metric))))]

\* MetricSpace.diagonal(idx), given the matrix self.dists returned; idx is
\* optional.  squareform raises ValueError on a matrix that is no valid
\* distance matrix.
MetricSpace_diagonal(D, idx) ==
    LET dist_mat == IF idx # None THEN Restrict(D, The(idx)) ELSE D
        full == IF D.sparse
                THEN fill_diagonal(_sparse_dok_get(dist_mat, Inf), 0)
                ELSE dist_mat.m
    IN  IF is_valid_dm(full)
        THEN [raised |-> "", value |-> squareform_to_vector(full)]
        ELSE [raised |-> "ValueError", value |-> <<>>]

(***************************************************************************)
(* MetricSpacePair.                                                        *)
(***************************************************************************)
\* the checks of MetricSpacePair.__init__: the exception raised, "" if none
MetricSpacePair_check(ms1, ms2) ==
    IF ms1.dist_metric # ms2.dist_metric THEN "ValueError"
    ELSE IF ms1.max_dist # ms2.max_dist THEN "ValueError"
    ELSE ""

\* MetricSpacePair.dist_metric and max_dist forward to ms1
MetricSpacePair_dist_metric(ms1) == ms1.dist_metric

MetricSpacePair_max_dist(ms1) == ms1.max_dist

\* a pair whose brute-force path leaves the metric at cdist's default
MetricSpacePair_dists_default_metric(ms1, ms2) ==
    IF MetricSpacePair_max_dist(ms1) # None
       /\ MetricSpacePair_dist_metric(ms1) = "euclidean"
    THEN tocsr(sparse_distance_matrix(
                 The(MetricSpace_tree(ms1)._tree),
                 The(MetricSpace_tree(ms2)._tree), The(SelfCut(ms1))))
    ELSE Dense(cdist(ms1.coords, ms2.coords, "euclidean"))

\* the matrix MetricSpacePair.dists computes from the two spaces (whose
\* trees are built when it takes the tree path)
MetricSpacePair_dists(ms1, ms2) ==
    IF MetricSpacePair_max_dist(ms1) # None
       /\ MetricSpacePair_dist_metric(ms1) = "euclidean"
    THEN tocsr(sparse_distance_matrix(
                 The(MetricSpace_tree(ms1)._tree),
                 The(MetricSpace_tree(ms2)._tree), The(SelfCut(ms1))))
    ELSE Dense(cdist(ms1.coords, ms2.coords, ms1.dist_metric))

(***************************************************************************)
(* numpy.random.RandomState: a generator is its state, a number; every     *)
(* variate drawn moves the state on and is a function of the state.        *)
(***************************************************************************)
RndStates == 0..(RndMod - 1)

\* the state after one variate
RndNext(s) == (5 * s + 3) % RndMod

\* swap of the elements (1-based positions a, b) of a sequence
Swap(x, a, b) ==
    [k \in DOMAIN x |-> IF k = a THEN x[b] ELSE IF k = b THEN x[a] ELSE x[k]]

\* rnd.shuffle on x[0..i]: for i down to 1, swap x[i] with x[j], j drawn in [0, i]
RECURSIVE Shuffle(_, _, _)
Shuffle(x, i, s) ==
    IF i < 1 THEN [value |-> x, state |-> s]
    ELSE LET s1 == RndNext(s)
             j == s1 % (i + 1)
         IN  Shuffle(Swap(x, i + 1, j + 1), i - 1, s1)

\* rnd.permutation(n): a shuffle of arange(n)
permutation(n, s) == Shuffle([k \in 1..n |-> k - 1], n - 1, s)

\* rnd.choice(n, size, replace=False): the first size elements of a
\* permutation of arange(n); ValueError when size > n
choice(n, size, s) ==
    IF size > n
    THEN [raised |-> "ValueError", value |-> <<>>, state |-> s]
    ELSE LET perm == permutation(n, s)
         IN  [raised |-> "", value |-> SubSeq(perm.value, 1, size),
              state |-> perm.state]

(***************************************************************************)
(* More of scipy.sparse: resize, the index arrays, CSR <-> CSC.            *)
(***************************************************************************)
\* csr.resize(shape): rows beyond the new shape dropped, missing rows empty,
\* entries beyond the new column count dropped
resize(A, shape) ==
    [sparse |-> TRUE,
     shape |-> shape,
     rows |-> [r \in 1..shape[1] |->
                 IF r <= Len(A.rows)
                 THEN SelectSeq(A.rows[r], LAMBDA e : e[1] < shape[2])
                 ELSE <<>>]]

\* A.indices = index[A.indices]: the minor indices looked up in an array
remap_indices(A, index) ==
    [A EXCEPT !.rows = [r \in DOMAIN A.rows |->
        [k \in DOMAIN A.rows[r] |-> <<index[A.rows[r][k][1] + 1], A.rows[r][k][2]>>]]]

\* csr.tocsc() and csc.tocsr(): the entries regrouped by their minor index,
\* in the order the major index is run through; rows holds the entries per
\* major index of the format the matrix is in, n_minor their minor dimension
regroup(A, n_minor) ==
    [A EXCEPT !.rows = [c \in 1..n_minor |->
        Flatten([r \in 1..Len(A.rows) |->
            LET hit == SelectSeq(A.rows[r], LAMBDA e : e[1] = c - 1)
            IN  [k \in 1..Len(hit) |-> <<r - 1, hit[k][2]>>]])]]

\* code of np.finfo(float).max: above every distance code of the model
FloatMax == 1000000

(***************************************************************************)
(* ProbabalisticMetricSpace.                                               *)
(***************************************************************************)
\* ProbabalisticMetricSpace.__init__; rnd is the state of the generator the
\* object draws from (np.random, the RandomState passed, or the one seeded)
ProbabalisticMetricSpace(coords, dist_metric, max_dist, samples, rnd) ==
    [coords |-> coords, dist_metric |-> dist_metric, max_dist |-> max_dist,
     samples |-> samples, rnd |-> rnd,
     _lidx |-> None, _ridx |-> None, _ltree |-> None, _rtree |-> None,
     _dists |-> None]

\* sample_count: samples is an int, or a float given as <<numerator, denominator>>
sample_count(self) ==
    IF self.samples.int
    THEN self.samples.n
    ELSE (self.samples.frac[1] * Len(self.coords)) \div self.samples.frac[2]

\* an object with the exception an access raised ("" if none)
Outcome(self, raised) == [self |-> self, raised |-> raised]

\* a lidx that draws on every read
Prob_lidx_redrawn(self) ==
    LET c == choice(Len(self.coords), sample_count(self), self.rnd)
    IN  IF c.raised # "" THEN Outcome(self, c.raised)
        ELSE Outcome([self EXCEPT !._lidx = Some(c.value), !.rnd = c.state], "")

\* ProbabalisticMetricSpace.lidx
Prob_lidx(self) ==
    IF self._lidx # None THEN Outcome(self, "")
    ELSE LET c == choice(Len(self.coords), sample_count(self), self.rnd)
         IN  IF c.raised # "" THEN Outcome(self, c.raised)
             ELSE Outcome([self EXCEPT !._lidx = Some(c.value), !.rnd = c.state], "")

\* ProbabalisticMetricSpace.ridx
Prob_ridx(self) ==
    IF self._ridx # None THEN Outcome(self, "")
    ELSE LET c == choice(Len(self.coords), sample_count(self), self.rnd)
         IN  IF c.raised # "" THEN Outcome(self, c.raised)
             ELSE Outcome([self EXCEPT !._ridx = Some(c.value), !.rnd = c.state], "")

\* self.coords[index, :]
Take(coords, index) == [k \in DOMAIN index |-> coords[index[k] + 1]]

\* ProbabalisticMetricSpace.ltree
Prob_ltree(self) ==
    IF self.dist_metric # "euclidean" THEN Outcome(self, "ValueError")
    ELSE IF self._ltree # None THEN Outcome(self, "")
    ELSE LET o == Prob_lidx(self)
         IN  IF o.raised # "" THEN o
             ELSE Outcome([o.self EXCEPT !._ltree =
                             Some(cKDTree(Take(self.coords, The(o.self._lidx))))], "")

\* ProbabalisticMetricSpace.rtree
Prob_rtree(self) ==
    IF self.dist_metric # "euclidean" THEN Outcome(self, "ValueError")
    ELSE IF self._rtree # None THEN Outcome(self, "")
    ELSE LET o == Prob_ridx(self)
         IN  IF o.raised # "" THEN o
             ELSE Outcome([o.self EXCEPT !._rtree =
                             Some(cKDTree(Take(self.coords, The(o.self._ridx))))], "")

\* the remap with the two index arrays exchanged
Prob_remap_swapped(local, n, lidx, ridx) ==
    LET resized == resize(local, <<n, n>>)
        cols_global == remap_indices(resized, lidx)
        csc == regroup(cols_global, n)
        rows_global == remap_indices(csc, ridx)
    IN  regroup(rows_global, n)

\* lines 373-377: the local matrix resized to N x N, its column indices looked
\* up in ridx, and, in column-major layout, its row indices looked up in lidx
Prob_remap(local, n, lidx, ridx) ==
    LET resized == resize(local, <<n, n>>)
        cols_global == remap_indices(resized, ridx)
        csc == regroup(cols_global, n)
        rows_global == remap_indices(csc, lidx)
    IN  regroup(rows_global, n)

\* ProbabalisticMetricSpace.dists
Prob_dists(self) ==
    IF self._dists # None THEN Outcome(self, "")
    ELSE LET max_dist == IF self.max_dist = None THEN FloatMax
                         ELSE CutCode("euclidean", The(self.max_dist), Dim(self))
             l == Prob_ltree(self)
         IN  IF l.raised # "" THEN l
             ELSE LET r == Prob_rtree(l.self)
                  IN  IF r.raised # "" THEN r
                      ELSE LET o == r.self
                               local == tocsr(sparse_distance_matrix(
                                           The(o._ltree), The(o._rtree), max_dist))
                           IN  Outcome([o EXCEPT !._dists =
                                   Some(Prob_remap(local, Len(o.coords),
                                                   The(o._lidx), The(o._ridx)))], "")

(***************************************************************************)
(* Lengths of the raster sampler.  The resolution, the radii and the       *)
(* cutoff are square roots of rationals, the center radius of a rational   *)
(* over pi; a length is held as its square num / den, or num / (den * pi), *)
(* and two lengths are compared by cross-multiplication.  pi enters as     *)
(* PiNum / PiDen, which decides every comparison of the inputs below as pi *)
(* does (the two sides are integers far below the denominators at which    *)
(* the approximation and pi part).                                         *)
(***************************************************************************)
PiNum == 355

PiDen == 113

RECURSIVE GCD(_, _)
GCD(a, b) == IF b = 0 THEN a ELSE GCD(b, a % b)

\* the length whose square is num / den (over pi if pi), in lowest terms
Length(num, den, pi) ==
    LET g == IF num = 0 THEN den ELSE GCD(num, den)
    IN  [num |-> num \div g, den |-> den \div g, pi |-> pi]

\* a < b for two lengths
LengthLess(a, b) ==
    LET fa == IF b.pi /\ ~a.pi THEN PiNum ELSE IF a.pi /\ ~b.pi THEN PiDen ELSE 1
        fb == IF a.pi /\ ~b.pi THEN PiNum ELSE IF b.pi /\ ~a.pi THEN PiDen ELSE 1
    IN  a.num * b.den * fa < b.num * a.den * fb

\* the length a scaled by the factor whose square is knum / kden
Scale(a, knum, kden) == Length(a.num * knum, a.den * kden, a.pi)

\* the largest d2 with sqrt(d2) <= a, for a length a without pi
FloorSquare(a) == a.num \div a.den

(***************************************************************************)
(* RasterEquidistantMetricSpace.                                           *)
(***************************************************************************)
\* the number of runs when runs is None
DefaultRuns == 10

\* line 424: the diagonal of one grid cell
Rems_res(shape, extent) ==
    Length((extent[2] - extent[1]) * (extent[2] - extent[1]) * shape[2] * shape[2]
              + (extent[4] - extent[3]) * (extent[4] - extent[3]) * shape[1] * shape[1],
           shape[1] * shape[1] * shape[2] * shape[2], FALSE)

\* one call of self.rnd.choice(n, size=size, replace=False), as it is kept in
\* the history of the draws of an object
Draw(what, n, size) == [what |-> what, n |-> n, size |-> size]

\* RasterEquidistantMetricSpace.__init__.  rnd is the argument: a RandomState
\* instance (with its state) or a seed; entropy is what SeedSequence(), called
\* without the seed, takes from the operating system.  draws is no attribute
\* of the object: it is the history of the calls of self.rnd.choice
RasterEquidistantMetricSpace(coords, shape, extent, runs, dist_metric, max_dist, samples, rnd, entropy) ==
    LET res == Rems_res(shape, extent)
    IN  [coords |-> coords, dist_metric |-> dist_metric, shape |-> shape,
         extent |-> extent, res |-> res,
         runs |-> IF runs = None THEN DefaultRuns ELSE The(runs),
         max_dist |-> IF max_dist = None
                      THEN Scale(res, MaxSeq(shape) * MaxSeq(shape), 1)
                      ELSE Length(The(max_dist) * The(max_dist), 1, FALSE),
         samples |-> samples,
         rnd |-> IF rnd.instance THEN rnd.state ELSE entropy,
         _cidx |-> None, _ctree |-> None, _eqidx |-> None, _eqtree |-> None,
         _center |-> None, _center_radius |-> None, _dists |-> None,
         draws |-> <<>>]

\* RasterEquidistantMetricSpace.sample_count
Rems_sample_count(self) ==
    IF self.samples.int
    THEN self.samples.n
    ELSE (self.samples.frac[1] * Len(self.coords)) \div self.samples.frac[2]

\* the distance of every point from the center of the round
dist_center(self) ==
    [k \in DOMAIN self.coords |->
        Length(Metric("euclidean", self.coords[k], The(self._center)), 1, FALSE)]

\* np.argwhere(mask): the 0-based positions that hold TRUE
argwhere(mask) == SelectSeq([k \in DOMAIN mask |-> k - 1], LAMBDA i : mask[i + 1])

\* a[index] for an index array that may hold negative positions
TakeWrapped(a, index) ==
    [k \in DOMAIN index |->
        IF index[k] < 0 THEN a[Len(a) + index[k] + 1] ELSE a[index[k] + 1]]

\* ndarray.squeeze() of an (n, 1) array: 0-dimensional when n = 1
squeeze(a) == [ndim |-> IF Len(a) = 1 THEN 0 ELSE 1, idx |-> a]

\* a cidx that draws on every read
Rems_cidx_redrawn(self) ==
    LET dc == dist_center(self)
        idx1 == [k \in DOMAIN dc |-> LengthLess(dc[k], The(self._center_radius))]
        indices1 == argwhere(idx1)
        c == choice(Len(indices1), Len(indices1) \div 2, self.rnd)
    IN  Outcome([self EXCEPT
                   !._cidx = Some(squeeze(Take(indices1, c.value))),
                   !.rnd = c.state,
                   !.draws = Append(@, Draw("center sample", Len(indices1),
                                            Len(indices1) \div 2))], "")

\* RasterEquidistantMetricSpace.cidx
Rems_cidx(self) ==
    IF self._cidx # None THEN Outcome(self, "")
    ELSE LET dc == dist_center(self)
             idx1 == [k \in DOMAIN dc |-> LengthLess(dc[k], The(self._center_radius))]
             indices1 == argwhere(idx1)
             c == choice(Len(indices1), Len(indices1) \div 2, self.rnd)
         IN  Outcome([self EXCEPT
                        !._cidx = Some(squeeze(Take(indices1, c.value))),
                        !.rnd = c.state,
                        !.draws = Append(@, Draw("center sample", Len(indices1),
                                                 Len(indices1) \div 2))], "")

\* RasterEquidistantMetricSpace.ctree; cKDTree raises ValueError for data
\* that is not 2-dimensional, which coords[cidx, :] is for a 0-dimensional cidx
Rems_ctree(self) ==
    IF self.dist_metric # "euclidean" THEN Outcome(self, "ValueError")
    ELSE IF self._ctree # None THEN Outcome(self, "")
    ELSE LET o == Rems_cidx(self)
             cidx == The(o.self._cidx)
         IN  IF cidx.ndim # 1 THEN Outcome(o.self, "ValueError")
             ELSE Outcome([o.self EXCEPT !._ctree =
                             Some(cKDTree(Take(self.coords, cidx.idx)))], "")

\* lines 513-515: the radii appended by the while loop, from increasing_rad on
RECURSIVE radii_from(_, _)
radii_from(increasing_rad, max_dist) ==
    IF LengthLess(increasing_rad, max_dist)
    THEN <<increasing_rad>> \o radii_from(Scale(increasing_rad, 9, 4), max_dist)
    ELSE <<>>

\* the while loop never ends: increasing_rad is 0 and stays 0 below max_dist
radii_diverge(rad, max_dist) == rad.num = 0 /\ LengthLess(rad, max_dist)

\* lines 510-516
list_inout_radius(rad, max_dist) ==
    <<Length(0, 1, FALSE)>> \o radii_from(rad, max_dist) \o <<max_dist>>

\* ~x of numpy on an integer array
invert(x) == [k \in DOMAIN x |-> -x[k] - 1]

Min(a, b) == IF a < b THEN a ELSE b

\* lines 525-537: the loop over the rings from ring i on (1-based), s the
\* state of the generator, list_idx the selections appended so far, draws the
\* history of the draws
RECURSIVE ring_loop(_, _, _, _, _, _, _)
ring_loop(self, radius, dc, i, s, list_idx, draws) ==
    IF i > Len(radius) - 1
    THEN [list_idx |-> list_idx, state |-> s, draws |-> draws]
    ELSE LET idx1 == [k \in DOMAIN dc |->
                         /\ LengthLess(dc[k], radius[i + 1])
                         /\ ~LengthLess(dc[k], radius[i])]
             indices1 == argwhere(idx1)
             c == choice(Len(indices1),
                         Min(Len(indices1), Rems_sample_count(self)), s)
             subidx == TakeWrapped(indices1, invert(c.value))
         IN  ring_loop(self, radius, dc, i + 1, c.state,
                       IF Len(subidx) > 1 THEN Append(list_idx, subidx)
                       ELSE list_idx,
                       Append(draws, Draw("ring", Len(indices1),
                                          Min(Len(indices1), Rems_sample_count(self)))))

\* RasterEquidistantMetricSpace.eqidx: "hang" when the while loop never ends,
\* ValueError of np.concatenate when no ring was appended
Rems_eqidx(self) ==
    IF radii_diverge(The(self._center_radius), self.max_dist)
    THEN Outcome(self, "hang")
    ELSE IF self._eqidx # None THEN Outcome(self, "")
    ELSE LET radius == list_inout_radius(The(self._center_radius), self.max_dist)
             rings == ring_loop(self, radius, dist_center(self), 1, self.rnd, <<>>,
                                self.draws)
         IN  IF rings.list_idx = <<>>
             THEN Outcome([self EXCEPT !.rnd = rings.state,
                                       !.draws = rings.draws], "ValueError")
             ELSE Outcome([self EXCEPT !._eqidx = Some(Flatten(rings.list_idx)),
                                       !.rnd = rings.state,
                                       !.draws = rings.draws], "")

\* RasterEquidistantMetricSpace.eqtree
Rems_eqtree(self) ==
    IF self.dist_metric # "euclidean" THEN Outcome(self, "ValueError")
    ELSE IF self._eqtree # None THEN Outcome(self, "")
    ELSE LET o == Rems_eqidx(self)
         IN  IF o.raised # "" THEN o
             ELSE Outcome([o.self EXCEPT !._eqtree =
                             Some(cKDTree(Take(self.coords, The(o.self._eqidx))))], "")

\* line 568: the centers of all runs, a (2, runs) array
Rems_idx_center(self) ==
    LET c == choice(Len(self.coords), 2 * self.runs, self.rnd)
    IN  [raised |-> c.raised, state |-> c.state,
         value |-> IF c.raised # "" THEN <<>>
                   ELSE <<SubSeq(c.value, 1, self.runs),
                          SubSeq(c.value, self.runs + 1, 2 * self.runs)>>]

\* lines 576-582 of run i (0-based): the center, its radius, cidx and eqidx
Rems_indexes(self, idx_center, i) ==
    LET centered ==
            [self EXCEPT
               !._center = Some(<<self.coords[idx_center[1][i + 1] + 1][1],
                                  self.coords[idx_center[2][i + 1] + 1][2]>>),
               !._center_radius =
                   Some(Length(Rems_sample_count(self) * self.res.num,
                               self.res.den, TRUE))]
         tmp == Rems_cidx(centered)
    IN  Rems_eqidx(tmp.self)

\* lines 587-591: both trees and the range query between them
Rems_pairwise(self) ==
    LET c == Rems_ctree(self)
    IN  IF c.raised # "" THEN [self |-> c.self, raised |-> c.raised, dists |-> <<>>]
        ELSE LET e == Rems_eqtree(c.self)
             IN  IF e.raised # ""
                 THEN [self |-> e.self, raised |-> e.raised, dists |-> <<>>]
                 ELSE [self |-> e.self, raised |-> "",
                       dists |-> sparse_distance_matrix(
                                    The(e.self._ctree), The(e.self._eqtree),
                                    FloorSquare(self.max_dist)).triples]

\* lines 600-603
Rems_reset(self) ==
    [self EXCEPT !._cidx = None, !._ctree = None, !._eqidx = None, !._eqtree = None]

\* an update that adds the value to the one already stored under the key
RECURSIVE dok_update_sum(_, _)
dok_update_sum(dok, items) ==
    IF items = <<>> THEN dok
    ELSE LET key == Head(items)[1]
             val == Head(items)[2]
         IN  dok_update_sum(
                IF key \in DOMAIN dok THEN [dok EXCEPT ![key] = @ + val]
                ELSE (key :> val) @@ dok,
                Tail(items))

\* dok._update(items), dict.update: every (key, value) of items stored in
\* turn, a key that is already there gets the new value
RECURSIVE dok_update(_, _)
dok_update(dok, items) ==
    IF items = <<>> THEN dok
    ELSE dok_update((Head(items)[1] :> Head(items)[2]) @@ dok, Tail(items))

\* dok.tocsr(): the stored items, zeros too, by row and sorted by column
dok_tocsr(dok, shape) ==
    [sparse |-> TRUE,
     shape |-> shape,
     rows |-> [r \in 1..shape[1] |->
        LET cols == SortSet({k[2] : k \in {q \in DOMAIN dok : q[1] = r - 1}})
        IN  [k \in 1..Len(cols) |-> <<cols[k], dok[<<r - 1, cols[k]>>]>>]]]

\* the empty dok_matrix
EmptyDok == [k \in {} |-> 0]

\* lines 608-625: the triples of all runs put together
Rems_assemble(self, list_dists, list_cidx, list_eqidx) ==
    LET d == Flatten(list_dists)
        c == Flatten(list_cidx)
        eq == Flatten(list_eqidx)
        items == [k \in DOMAIN d |-> <<<<c[k], eq[k]>>, d[k]>>]
        dok == dok_update(EmptyDok, items)
    IN  dok_tocsr(dok, <<Len(self.coords), Len(self.coords)>>)

(***************************************************************************)
(* RasterEquidistantMetricSpace2, the sampler that works on all runs at    *)
(* once: _centers, _cidx, _ctree, _eqidx and _eqtree hold one element per  *)
(* run.                                                                    *)
(***************************************************************************)
\* the element of a one-element set; Bind({e(x) : x \in {v}}) is e(v) with v
\* evaluated once
Bind(S) == CHOOSE x \in S : TRUE

\* RasterEquidistantMetricSpace2.__init__
RasterEquidistantMetricSpace2(coords, shape, extent, runs, dist_metric, max_dist, samples, rnd, entropy) ==
    LET res == Rems_res(shape, extent)
    IN  [coords |-> coords, dist_metric |-> dist_metric, shape |-> shape,
         extent |-> extent, res |-> res,
         runs |-> IF runs = None THEN DefaultRuns ELSE The(runs),
         max_dist |-> IF max_dist = None
                      THEN Scale(res, MaxSeq(shape) * MaxSeq(shape), 1)
                      ELSE Length(The(max_dist) * The(max_dist), 1, FALSE),
         samples |-> samples,
         rnd |-> IF rnd.instance THEN rnd.state ELSE entropy,
         _cidx |-> None, _ctree |-> None, _eqidx |-> None, _eqtree |-> None,
         _centers |-> None, _center_radius |-> None, _dists |-> None,
         draws |-> <<>>]

\* lines 726-727: the distances from the centers as cidx computes them, with
\* _centers[:, 0] subtracted from both coordinates
dist_center_cidx2(self) ==
    [i \in DOMAIN The(self._centers) |-> [k \in DOMAIN self.coords |->
        Length(Metric("euclidean", self.coords[k],
                      <<The(self._centers)[i][1], The(self._centers)[i][1]>>),
               1, FALSE)]]

\* lines 779-780: the distances from the centers as eqidx computes them
dist_center_eqidx2(self) ==
    [i \in DOMAIN The(self._centers) |-> [k \in DOMAIN self.coords |->
        Length(Metric("euclidean", self.coords[k], The(self._centers)[i]), 1, FALSE)]]

\* lines 732-739: the loop over the runs from run i on (1-based)
RECURSIVE cidx_loop2(_, _, _, _, _, _)
cidx_loop2(self, dc, i, s, cidxs, draws) ==
    IF i > self.runs THEN [cidxs |-> cidxs, state |-> s, draws |-> draws]
    ELSE Bind({
           Bind({cidx_loop2(self, dc, i + 1, c.state,
                            Append(cidxs, squeeze(Take(indices1, c.value))),
                            Append(draws, Draw("center sample", Len(indices1),
                                               Len(indices1) \div 2)))
                 : c \in {choice(Len(indices1), Len(indices1) \div 2, s)}})
           : indices1 \in {argwhere([k \in DOMAIN dc[i] |->
                               LengthLess(dc[i][k], The(self._center_radius))])}})

\* RasterEquidistantMetricSpace2.cidx
Rems2_cidx(self) ==
    IF self._cidx # None THEN Outcome(self, "")
    ELSE Bind({Outcome([self EXCEPT !._cidx = Some(r.cidxs), !.rnd = r.state,
                                    !.draws = r.draws], "")
               : r \in {cidx_loop2(self, dist_center_cidx2(self), 1, self.rnd, <<>>,
                                   self.draws)}})

\* RasterEquidistantMetricSpace2.ctree; cKDTree raises ValueError for the
\* 1-dimensional coords[cidx[i], :] of a 0-dimensional cidx[i]
Rems2_ctree(self) ==
    IF self.dist_metric # "euclidean" THEN Outcome(self, "ValueError")
    ELSE IF self._ctree # None THEN Outcome(self, "")
    ELSE Bind({
           IF \E i \in DOMAIN The(o.self._cidx) : The(o.self._cidx)[i].ndim # 1
           THEN Outcome(o.self, "ValueError")
           ELSE Outcome([o.self EXCEPT !._ctree =
                   Some([i \in DOMAIN The(o.self._cidx) |->
                            cKDTree(Take(self.coords, The(o.self._cidx)[i].idx))])], "")
           : o \in {Rems2_cidx(self)}})

\* lines 768-776: the inner and the outer radius of every ring
list_in_radius(rad, max_dist) == <<Length(0, 1, FALSE)>> \o radii_from(rad, max_dist)

list_out_radius(rad, max_dist) ==
    Bind({<<rad>> \o [k \in DOMAIN radii |-> Scale(radii[k], 9, 4)]
          : radii \in {radii_from(rad, max_dist)}})

\* lines 795-797: the draws of one run from ring j on (1-based); indices2
\* indexes the concatenation indices1 of the rings of the run
RECURSIVE ring_loop2(_, _, _, _, _, _, _)
ring_loop2(self, indices1, counts, j, s, list_idx, draws) ==
    IF j > Len(counts) THEN [list_idx |-> list_idx, state |-> s, draws |-> draws]
    ELSE Bind({ring_loop2(self, indices1, counts, j + 1, c.state,
                          Append(list_idx, squeeze(Take(indices1, c.value))),
                          Append(draws, Draw("ring", counts[j],
                                 Min(counts[j], Rems_sample_count(self)))))
               : c \in {choice(counts[j], Min(counts[j], Rems_sample_count(self)), s)}})

\* lines 788-798: the loop over the runs from run i on (1-based).
\* np.concatenate raises ValueError for a 0-dimensional array, which the
\* squeeze of a ring, or of a selection, of exactly one point is
RECURSIVE eqidx_loop2(_, _, _, _, _, _, _, _)
eqidx_loop2(self, list_in, list_out, dc, i, s, eqidxs, draws) ==
    IF i > self.runs
    THEN [raised |-> "", eqidxs |-> eqidxs, state |-> s, draws |-> draws]
    ELSE Bind({
           IF \E j \in DOMAIN rings : squeeze(rings[j]).ndim # 1
           THEN [raised |-> "ValueError", eqidxs |-> eqidxs, state |-> s,
                 draws |-> draws]
           ELSE Bind({
                  IF \E j \in DOMAIN r.list_idx : r.list_idx[j].ndim # 1
                  THEN [raised |-> "ValueError", eqidxs |-> eqidxs,
                        state |-> r.state, draws |-> r.draws]
                  ELSE eqidx_loop2(self, list_in, list_out, dc, i + 1, r.state,
                          Append(eqidxs,
                                 Flatten([j \in DOMAIN r.list_idx |->
                                             r.list_idx[j].idx])),
                          r.draws)
                  : r \in {ring_loop2(self, Flatten(rings),
                                      [j \in DOMAIN rings |-> Len(rings[j])],
                                      1, s, <<>>, draws)}})
           : rings \in {[j \in DOMAIN list_in |->
                           argwhere([k \in DOMAIN dc[i] |->
                                        /\ ~LengthLess(dc[i][k], list_in[j])
                                        /\ LengthLess(dc[i][k], list_out[j])])]}})

\* RasterEquidistantMetricSpace2.eqidx: "hang" when the while loop never ends
Rems2_eqidx(self) ==
    IF self._eqidx # None THEN Outcome(self, "")
    ELSE IF radii_diverge(The(self._center_radius), self.max_dist)
    THEN Outcome(self, "hang")
    ELSE Bind({
           IF r.raised # ""
           THEN Outcome([self EXCEPT !.rnd = r.state, !.draws = r.draws], r.raised)
           ELSE Outcome([self EXCEPT !._eqidx = Some(r.eqidxs), !.rnd = r.state,
                                     !.draws = r.draws], "")
           : r \in {Bind({eqidx_loop2(self, list_in, list_out, dc, 1, self.rnd,
                                      <<>>, self.draws)
                          : list_in \in {list_in_radius(The(self._center_radius),
                                                        self.max_dist)},
                            list_out \in {list_out_radius(The(self._center_radius),
                                                          self.max_dist)},
                            dc \in {dist_center_eqidx2(self)}})}})

\* RasterEquidistantMetricSpace2.eqtree
Rems2_eqtree(self) ==
    IF self.dist_metric # "euclidean" THEN Outcome(self, "ValueError")
    ELSE IF self._eqtree # None THEN Outcome(self, "")
    ELSE Bind({
           IF o.raised # "" THEN o
           ELSE Outcome([o.self EXCEPT !._eqtree =
                   Some([i \in DOMAIN The(o.self._eqidx) |->
                            cKDTree(Take(self.coords, The(o.self._eqidx)[i]))])], "")
           : o \in {Rems2_eqidx(self)}})

\* line 830: one center per run
Rems2_idx_center(self) == choice(Len(self.coords), self.runs, self.rnd)

\* lines 827-840: the centers, their radius, cidx and eqidx of all runs
Rems2_indexes(self) ==
    Bind({
      IF c.raised # "" THEN Outcome(self, c.raised)
      ELSE Bind({Rems2_eqidx(tmp.self)
                 : tmp \in {Rems2_cidx(
                     [self EXCEPT
                        !.rnd = c.state,
                        !.draws = Append(@, Draw("centers", Len(self.coords), self.runs)),
                        !._centers = Some(Take(self.coords, c.value)),
                        !._center_radius =
                            Some(Length(Rems_sample_count(self) * self.res.num,
                                        self.res.den, TRUE))])}})
      : c \in {Rems2_idx_center(self)}})

\* lines 848-852 of run i (0-based): the trees of all runs and the range query
\* between the two of run i
Rems2_pairwise(self, i) ==
    Bind({
      IF c.raised # "" THEN [self |-> c.self, raised |-> c.raised, dists |-> <<>>]
      ELSE Bind({
             IF e.raised # ""
             THEN [self |-> e.self, raised |-> e.raised, dists |-> <<>>]
             ELSE [self |-> e.self, raised |-> "",
                   dists |-> sparse_distance_matrix(
                                The(e.self._ctree)[i + 1], The(e.self._eqtree)[i + 1],
                                FloorSquare(self.max_dist)).triples]
             : e \in {Rems2_eqtree(c.self)}})
      : c \in {Rems2_ctree(self)}})

(***************************************************************************)
(* State.                                                                  *)
(*   kind  which objects the client constructed: "space" (one MetricSpace),*)
(*         "pair" (two MetricSpaces, then a MetricSpacePair), "prob" (one  *)
(*         ProbabalisticMetricSpace), "raster", "batched"                  *)
(*   ms    the MetricSpace objects, a sequence of one or two               *)
(*   pair  the MetricSpacePair, None until its construction succeeds       *)
(*   prob  the ProbabalisticMetricSpace, None when there is none           *)
(*   rems  the two RasterEquidistantMetricSpace objects of kind "raster",  *)
(*         built from the same arguments, each with the position and the   *)
(*         local variables of its dists call; the second object is used    *)
(*         when the call on the first has ended; of kind "batched" a       *)
(*         RasterEquidistantMetricSpace and a RasterEquidistantMetricSpace2*)
(*         built from the same arguments and the same generator state      *)
(*   ret   the call that has just returned or raised: its name, arguments, *)
(*         the exception raised ("" if none) and the value returned;       *)
(*         NoCall while the client is between calls                        *)
(***************************************************************************)
VARIABLES kind, ms, pair, prob, rems, ret

vars == <<kind, ms, pair, prob, rems, ret>>

NoCall == [op |-> "", raised |-> "", value |-> <<>>]

\* the row indices of a space, 0-based
Indices(self) == 0..(Len(self.coords) - 1)

\* the values the optional count N of find_closest is drawn from
CountInputs(self) == {None} \cup {Some(n) : n \in 0..Len(self.coords)}

\* the sequences of at most MaxN distinct indices of a space
InjectiveSeqs(self) ==
    UNION {{q \in [1..n -> Indices(self)] :
              \A a \in 1..n : \A b \in 1..n : a # b => q[a] # q[b]}
           : n \in 0..(IF Len(self.coords) < MaxN THEN Len(self.coords) ELSE MaxN)}

\* the values the optional idx of diagonal is drawn from: None, the sequences
\* of distinct indices, and an index taken twice
DiagonalInputs(self) ==
    {None} \cup {Some(q) : q \in InjectiveSeqs(self)}
           \cup {Some(<<i, i>>) : i \in Indices(self)}

SpaceInputs ==
    {MetricSpace(c, m, d) : c \in CoordInputs, m \in Metrics, d \in OptCutoffs}

InitSpace ==
    /\ kind = "space"
    /\ ms \in {<<s>> : s \in SpaceInputs}
    /\ pair = None
    /\ prob = None
    /\ rems = <<>>
    /\ ret = NoCall

\* the metric the second space of a pair may differ by
OtherMetric(m) == IF m = "euclidean" THEN "cityblock" ELSE "euclidean"

\* the second space of a pair: the coordinates of the first, reversed or not,
\* with the same or another metric and the same or another cutoff
Reverse(s) == [k \in 1..Len(s) |-> s[Len(s) + 1 - k]]

SecondInputs(s) ==
    {MetricSpace(c, m, d) :
        c \in {s.coords, Reverse(s.coords)},
        m \in {s.dist_metric, OtherMetric(s.dist_metric)},
        d \in {s.max_dist, None, Some(MaxCut)}}

InitPair ==
    /\ kind = "pair"
    /\ ms \in UNION {{<<s, t>> : t \in SecondInputs(s)} : s \in SpaceInputs}
    /\ pair = None
    /\ prob = None
    /\ rems = <<>>
    /\ ret = NoCall

(***************************************************************************)
(* Operations on a MetricSpace.                                            *)
(***************************************************************************)
\* ms.tree
Tree ==
    /\ kind = "space"
    /\ ret = NoCall
    /\ IF ms[1].dist_metric # "euclidean"
       THEN /\ ret' = [op |-> "tree", raised |-> "ValueError", value |-> <<>>]
            /\ UNCHANGED ms
       ELSE /\ ms' = [ms EXCEPT ![1] = MetricSpace_tree(ms[1])]
            /\ ret' = [op |-> "tree", raised |-> "", value |-> The(ms'[1]._tree)]
    /\ UNCHANGED <<kind, pair, prob, rems>>

\* ms.dists
Dists ==
    /\ kind = "space"
    /\ ret = NoCall
    /\ ms' = [ms EXCEPT ![1] = MetricSpace_dists(ms[1])]
    /\ ret' = [op |-> "dists", raised |-> "", value |-> The(ms'[1]._dists)]
    /\ UNCHANGED <<kind, pair, prob, rems>>

\* ms.diagonal(idx)
Diagonal ==
    /\ kind = "space"
    /\ ret = NoCall
    /\ \E idx \in DiagonalInputs(ms[1]) :
          /\ ms' = [ms EXCEPT ![1] = MetricSpace_dists(ms[1])]
          /\ ret' = [op |-> "diagonal", idx |-> idx]
                      @@ MetricSpace_diagonal(The(ms'[1]._dists), idx)
    /\ UNCHANGED <<kind, pair, prob, rems>>

\* the code of the effective cutoff of a find_closest call on a space-like
\* object with metric name and points of dimension dim
EffectiveCut(name, dim, self_max_dist, max_dist) ==
    LET eff == IF max_dist = None THEN self_max_dist ELSE max_dist
    IN  IF eff = None THEN None ELSE Some(CutCode(name, The(eff), dim))

\* ms.find_closest(idx, max_dist, N)
FindClosest ==
    /\ kind = "space"
    /\ ret = NoCall
    /\ \E idx \in Indices(ms[1]), max_dist \in OptCutoffs, N \in CountInputs(ms[1]) :
          LET call == [op |-> "find_closest", idx |-> idx,
                       max_dist |-> max_dist, N |-> N]
          IN  IF cutoff_mismatch(ms[1].max_dist, max_dist)
              THEN /\ ret' = call @@ [raised |-> "AttributeError", value |-> <<>>]
                   /\ UNCHANGED ms
              ELSE /\ ms' = [ms EXCEPT ![1] = MetricSpace_dists(ms[1])]
                   /\ ret' = call @@ find_closest(
                                The(ms'[1]._dists), idx,
                                EffectiveCut(ms[1].dist_metric, Dim(ms[1]),
                                             ms[1].max_dist, max_dist), N)
    /\ UNCHANGED <<kind, pair, prob, rems>>

(***************************************************************************)
(* Operations on a MetricSpacePair.                                        *)
(***************************************************************************)
\* MetricSpacePair(ms1, ms2)
NewPair ==
    /\ kind = "pair"
    /\ ret = NoCall
    /\ pair = None
    /\ LET e == MetricSpacePair_check(ms[1], ms[2])
       IN  /\ ret' = [op |-> "MetricSpacePair", raised |-> e, value |-> <<>>]
           /\ pair' = IF e = "" THEN Some([ms1 |-> 1, ms2 |-> 2, _dists |-> None])
                      ELSE None
    /\ UNCHANGED <<kind, ms, prob, rems>>

\* the state after pair.dists: the matrix cached, the trees of the two spaces
\* built when the tree path is taken
PairDistsEffect ==
    LET p == The(pair)
        tree_path == MetricSpacePair_max_dist(ms[p.ms1]) # None
                     /\ MetricSpacePair_dist_metric(ms[p.ms1]) = "euclidean"
    IN  IF p._dists # None
        THEN UNCHANGED <<pair, ms>>
        ELSE /\ pair' = Some([p EXCEPT !._dists =
                                Some(MetricSpacePair_dists(ms[p.ms1], ms[p.ms2]))])
             /\ ms' = IF tree_path
                      THEN [k \in DOMAIN ms |-> MetricSpace_tree(ms[k])]
                      ELSE ms

\* pair.dists
PairDists ==
    /\ kind = "pair"
    /\ ret = NoCall
    /\ pair # None
    /\ PairDistsEffect
    /\ ret' = [op |-> "dists", raised |-> "", value |-> The(The(pair')._dists)]
    /\ UNCHANGED <<kind, prob, rems>>

\* pair.find_closest(idx, max_dist, N)
PairFindClosest ==
    /\ kind = "pair"
    /\ ret = NoCall
    /\ pair # None
    /\ \E idx \in Indices(ms[1]), max_dist \in OptCutoffs, N \in CountInputs(ms[2]) :
          LET call == [op |-> "find_closest", idx |-> idx,
                       max_dist |-> max_dist, N |-> N]
              self_max_dist == MetricSpacePair_max_dist(ms[The(pair).ms1])
          IN  IF cutoff_mismatch(self_max_dist, max_dist)
              THEN /\ ret' = call @@ [raised |-> "AttributeError", value |-> <<>>]
                   /\ UNCHANGED <<pair, ms>>
              ELSE /\ PairDistsEffect
                   /\ ret' = call @@ find_closest(
                                The(The(pair')._dists), idx,
                                EffectiveCut(ms[1].dist_metric, Dim(ms[1]),
                                             self_max_dist, max_dist), N)
    /\ UNCHANGED <<kind, prob, rems>>

(***************************************************************************)
(* Operations on a ProbabalisticMetricSpace.                               *)
(***************************************************************************)
\* the first n of the 5 points on a line
Line(n) == SubSeq(Line5, 1, n)

\* samples: an int (also one above the number of points) or the fraction 1/2
SampleInputs(n) ==
    {[int |-> TRUE, n |-> k, frac |-> <<0, 1>>] : k \in 1..(n + 1)}
        \cup {[int |-> FALSE, n |-> 0, frac |-> <<1, 2>>]}

ProbInputs ==
    UNION {{ProbabalisticMetricSpace(Line(n), m, d, k, r) :
               m \in {"euclidean", "cityblock"}, d \in OptCutoffs,
               k \in SampleInputs(n), r \in RndStates}
           : n \in 1..MaxN}

InitProb ==
    /\ kind = "prob"
    /\ ms = <<>>
    /\ pair = None
    /\ prob \in {Some(o) : o \in ProbInputs}
    /\ rems = <<>>
    /\ ret = NoCall

\* a property read of the sampler: the object after it, the exception raised
\* and, when none, the value of the field read
ProbRead(op, o, field) ==
    /\ prob' = Some(o.self)
    /\ ret' = [op |-> op, raised |-> o.raised,
               value |-> IF o.raised = "" THEN The(o.self[field]) ELSE <<>>]
    /\ UNCHANGED <<kind, ms, pair, rems>>

\* prob.lidx
Lidx == kind = "prob" /\ ret = NoCall /\ ProbRead("lidx", Prob_lidx(The(prob)), "_lidx")

\* prob.ridx
Ridx == kind = "prob" /\ ret = NoCall /\ ProbRead("ridx", Prob_ridx(The(prob)), "_ridx")

\* prob.ltree
Ltree == kind = "prob" /\ ret = NoCall /\ ProbRead("ltree", Prob_ltree(The(prob)), "_ltree")

\* prob.rtree
Rtree == kind = "prob" /\ ret = NoCall /\ ProbRead("rtree", Prob_rtree(The(prob)), "_rtree")

\* prob.dists
ProbDists == kind = "prob" /\ ret = NoCall /\ ProbRead("dists", Prob_dists(The(prob)), "_dists")

\* the counts a sampler is queried with: unset, one, and all the points
ProbCountInputs(self) == {None, Some(1), Some(Len(self.coords))}

\* prob.find_closest(idx, max_dist, N)
ProbFindClosest ==
    /\ kind = "prob"
    /\ ret = NoCall
    /\ \E idx \in Indices(The(prob)), max_dist \in OptCutoffs,
          N \in ProbCountInputs(The(prob)) :
          LET self == The(prob)
              call == [op |-> "find_closest", idx |-> idx,
                       max_dist |-> max_dist, N |-> N]
              o == Prob_dists(self)
          IN  IF cutoff_mismatch(self.max_dist, max_dist)
              THEN /\ ret' = call @@ [raised |-> "AttributeError", value |-> <<>>]
                   /\ UNCHANGED prob
              ELSE /\ prob' = Some(o.self)
                   /\ ret' = call @@
                        (IF o.raised # ""
                         THEN [raised |-> o.raised, value |-> <<>>]
                         ELSE find_closest(
                                The(o.self._dists), idx,
                                EffectiveCut(self.dist_metric, Dim(self),
                                             self.max_dist, max_dist), N))
    /\ UNCHANGED <<kind, ms, pair, rems>>

(***************************************************************************)
(* Operations on the RasterEquidistantMetricSpace objects.                 *)
(***************************************************************************)
\* np.meshgrid(x, y) of x = arange(GridW), y = arange(GridH), flattened
Grid == [k \in 1..(GridW * GridH) |-> <<(k - 1) % GridW, (k - 1) \div GridW>>]

GridShape == <<GridW, GridH>>

\* (x[0], x[-1], y[0], y[-1])
GridExtent == <<0, GridW - 1, 0, GridH - 1>>

RemsSamples ==
    {[int |-> TRUE, n |-> k, frac |-> <<0, 1>>] : k \in {0, 5, 10}}
        \cup {[int |-> FALSE, n |-> 0, frac |-> <<1, 2>>]}

\* rnd: a seed, or a RandomState instance in a given state
Seeds == {42}

RndArgs ==
    {[instance |-> FALSE, seed |-> k, state |-> 0] : k \in Seeds}
        \cup {[instance |-> TRUE, seed |-> 0, state |-> s] : s \in RndStates}

\* the arguments both objects are constructed with
RemsArgs ==
    [runs : {None} \cup {Some(n) : n \in 1..MaxRuns},
     dist_metric : {"euclidean", "cityblock"},
     max_dist : OptCutoffs,
     samples : RemsSamples,
     rnd : RndArgs]

\* an object with its arguments and the frame of its dists call: the position
\* pc, the run i, idx_center, the three lists, and the centers and index sets
\* of the runs so far
ProcessOn(coords, args, entropy) ==
    [args |-> args,
     self |-> RasterEquidistantMetricSpace(coords, GridShape, GridExtent, args.runs,
                 args.dist_metric, args.max_dist, args.samples, args.rnd, entropy),
     pc |-> "new", i |-> 0, idx_center |-> <<>>,
     list_dists |-> <<>>, list_cidx |-> <<>>, list_eqidx |-> <<>>,
     rounds |-> <<>>, retries |-> 0, reads |-> 0]

Process(args, entropy) == ProcessOn(Grid, args, entropy)

\* the coordinates of a raster with one masked cell: the cell is left out
Masked == SubSeq(Grid, 1, Len(Grid) - 1)

InitRaster ==
    /\ kind = "raster"
    /\ ms = <<>>
    /\ pair = None
    /\ prob = None
    /\ rems \in {<<Process(a, e1), Process(a, e2)>> :
                    a \in RemsArgs, e1 \in RndStates, e2 \in RndStates}
    /\ ret = NoCall

\* two objects over the raster with the masked cell
InitMasked ==
    /\ kind = "raster"
    /\ ms = <<>>
    /\ pair = None
    /\ prob = None
    /\ rems \in {<<ProcessOn(Masked, a, e), ProcessOn(Masked, a, e)>> :
                    a \in RemsArgs, e \in RndStates}
    /\ ret = NoCall

\* one object that is used again after its dists call has ended
InitReuse ==
    /\ kind = "reuse"
    /\ ms = <<>>
    /\ pair = None
    /\ prob = None
    /\ rems \in {<<Process(a, e)>> : a \in RemsArgs, e \in RndStates}
    /\ ret = NoCall

\* the object in use
Active == IF kind = "reuse" THEN 1
          ELSE IF rems[1].pc \in {"done", "raised"} THEN 2 ELSE 1

\* the object in use is a RasterEquidistantMetricSpace
LoopTurn == kind \in {"raster", "reuse"} \/ (kind = "batched" /\ Active = 1)

\* the object in use is a RasterEquidistantMetricSpace2
BatchTurn == kind = "batched" /\ Active = 2

\* the dists call of the object in use ends with an exception
RemsRaise(self, raised) ==
    /\ rems' = [rems EXCEPT ![Active].self = self, ![Active].pc = "raised"]
    /\ ret' = [op |-> "dists", raised |-> raised, value |-> <<>>]

\* rems.dists up to line 568: the lists are set up and the centers drawn
RemsDists ==
    /\ LoopTurn
    /\ ret = NoCall
    /\ rems[Active].pc = "new"
    /\ \E p \in {rems[Active]} : \E c \in {Rems_idx_center(p.self)} :
           IF c.raised # "" THEN RemsRaise(p.self, c.raised)
           ELSE /\ rems' = [rems EXCEPT ![Active].self.rnd = c.state,
                                        ![Active].self.draws =
                                            Append(@, Draw("centers", Len(p.self.coords),
                                                           2 * p.self.runs)),
                                        ![Active].idx_center = c.value,
                                        ![Active].pc = "indexes"]
                /\ UNCHANGED ret
    /\ UNCHANGED <<kind, ms, pair, prob>>

\* lines 576-582 of a run
RemsIndexes ==
    /\ LoopTurn
    /\ rems[Active].pc = "indexes"
    /\ \E p \in {rems[Active]} : \E o \in {Rems_indexes(p.self, p.idx_center, p.i)} :
           IF o.raised = "hang"
           THEN /\ rems' = [rems EXCEPT ![Active].self = o.self, ![Active].pc = "hang"]
                /\ UNCHANGED ret
           ELSE IF o.raised # "" THEN RemsRaise(o.self, o.raised)
           ELSE /\ rems' = [rems EXCEPT
                              ![Active].self = o.self,
                              ![Active].pc = "pairwise",
                              ![Active].rounds = Append(@,
                                  [center |-> The(o.self._center),
                                   cidx |-> The(o.self._cidx),
                                   eqidx |-> The(o.self._eqidx)])]
                /\ UNCHANGED ret
    /\ UNCHANGED <<kind, ms, pair, prob>>

\* lines 587-598 of a run
RemsPairwise ==
    /\ LoopTurn
    /\ rems[Active].pc = "pairwise"
    /\ \E o \in {Rems_pairwise(rems[Active].self)} :
          IF o.raised # "" THEN RemsRaise(o.self, o.raised)
          ELSE \E cidx \in {The(o.self._cidx).idx}, eqidx \in {The(o.self._eqidx)} :
                /\ rems' = [rems EXCEPT
                     ![Active].self = o.self,
                     ![Active].pc = "reset",
                     ![Active].list_dists =
                         Append(@, [k \in DOMAIN o.dists |-> o.dists[k][3]]),
                     ![Active].list_cidx =
                         Append(@, [k \in DOMAIN o.dists |-> cidx[o.dists[k][1] + 1]]),
                     ![Active].list_eqidx =
                         Append(@, [k \in DOMAIN o.dists |-> eqidx[o.dists[k][2] + 1]])]
                /\ UNCHANGED ret
    /\ UNCHANGED <<kind, ms, pair, prob>>

\* lines 600-603 of a run, and the step of the for loop
RemsReset ==
    /\ LoopTurn
    /\ rems[Active].pc = "reset"
    /\ LET p == rems[Active]
       IN  rems' = [rems EXCEPT
                      ![Active].self = Rems_reset(p.self),
                      ![Active].i = p.i + 1,
                      ![Active].pc = IF p.i + 1 < p.self.runs THEN "indexes"
                                     ELSE "assemble"]
    /\ UNCHANGED <<kind, ms, pair, prob, ret>>

\* lines 608-633: the matrix is put together, cached and returned
RemsAssemble ==
    /\ LoopTurn
    /\ rems[Active].pc = "assemble"
    /\ \E p \in {rems[Active]} :
       \E dists \in {Rems_assemble(p.self, p.list_dists, p.list_cidx, p.list_eqidx)} :
           /\ rems' = [rems EXCEPT ![Active].self._dists = Some(dists),
                                   ![Active].pc = "done"]
           /\ ret' = [op |-> "dists", raised |-> "", value |-> dists]
    /\ UNCHANGED <<kind, ms, pair, prob>>

\* rems.dists once more after a call that raised: _dists is still None and
\* the call starts again at line 566 with the fields the failed call left
RemsRetry ==
    /\ kind = "reuse"
    /\ ret = NoCall
    /\ rems[1].pc = "raised"
    /\ rems[1].retries < MaxRetries
    /\ \E p \in {rems[1]} : \E c \in {Rems_idx_center(p.self)} :
           IF c.raised # ""
           THEN /\ rems' = [rems EXCEPT ![1].retries = @ + 1]
                /\ ret' = [op |-> "dists", raised |-> c.raised, value |-> <<>>]
           ELSE /\ rems' = [rems EXCEPT
                              ![1].self.rnd = c.state,
                              ![1].self.draws =
                                  Append(@, Draw("centers", Len(p.self.coords),
                                                 2 * p.self.runs)),
                              ![1].idx_center = c.value,
                              ![1].i = 0,
                              ![1].list_dists = <<>>,
                              ![1].list_cidx = <<>>,
                              ![1].list_eqidx = <<>>,
                              ![1].rounds = <<>>,
                              ![1].retries = @ + 1,
                              ![1].pc = "indexes"]
                /\ UNCHANGED ret
    /\ UNCHANGED <<kind, ms, pair, prob>>

\* rems.dists after a call that returned: line 564 finds _dists set
RemsDistsCached ==
    /\ kind = "reuse"
    /\ ret = NoCall
    /\ rems[1].pc = "done"
    /\ ret' = [op |-> "dists", raised |-> "", value |-> The(rems[1].self._dists)]
    /\ UNCHANGED <<kind, ms, pair, prob, rems>>

\* rems.cidx read by the client between two dists calls; the subtraction of
\* line 473 raises TypeError while _center is None
RemsReadCidx ==
    /\ kind = "reuse"
    /\ ret = NoCall
    /\ rems[1].pc \in {"done", "raised"}
    /\ rems[1].reads < MaxReads
    /\ IF rems[1].self._center = None
       THEN /\ ret' = [op |-> "cidx", raised |-> "TypeError", value |-> <<>>]
            /\ rems' = [rems EXCEPT ![1].reads = @ + 1]
       ELSE \E o \in {Rems_cidx(rems[1].self)} :
               /\ rems' = [rems EXCEPT ![1].self = o.self, ![1].reads = @ + 1]
               /\ ret' = [op |-> "cidx", raised |-> "", value |-> The(o.self._cidx).idx]
    /\ UNCHANGED <<kind, ms, pair, prob>>

\* rems.eqidx read by the client between two dists calls; the comparison of
\* line 513 raises TypeError while _center_radius is None
RemsReadEqidx ==
    /\ kind = "reuse"
    /\ ret = NoCall
    /\ rems[1].pc \in {"done", "raised"}
    /\ rems[1].reads < MaxReads
    /\ IF rems[1].self._center_radius = None
       THEN /\ ret' = [op |-> "eqidx", raised |-> "TypeError", value |-> <<>>]
            /\ rems' = [rems EXCEPT ![1].reads = @ + 1]
       ELSE \E o \in {Rems_eqidx(rems[1].self)} :
               IF o.raised = "hang"
               THEN /\ rems' = [rems EXCEPT ![1].self = o.self, ![1].pc = "hang"]
                    /\ UNCHANGED ret
               ELSE /\ rems' = [rems EXCEPT ![1].self = o.self, ![1].reads = @ + 1]
                    /\ ret' = [op |-> "eqidx", raised |-> o.raised,
                               value |-> IF o.raised = "" THEN The(o.self._eqidx)
                                         ELSE <<>>]
    /\ UNCHANGED <<kind, ms, pair, prob>>

(***************************************************************************)
(* Operations on a RasterEquidistantMetricSpace2.                          *)
(***************************************************************************)
\* a RasterEquidistantMetricSpace2 with its arguments and the frame of its
\* dists call
Process2(args, entropy) ==
    [args |-> args,
     self |-> RasterEquidistantMetricSpace2(Grid, GridShape, GridExtent, args.runs,
                 args.dist_metric, args.max_dist, args.samples, args.rnd, entropy),
     pc |-> "new", i |-> 0,
     list_dists |-> <<>>, list_cidx |-> <<>>, list_eqidx |-> <<>>]

InitBatched ==
    /\ kind = "batched"
    /\ ms = <<>>
    /\ pair = None
    /\ prob = None
    /\ rems \in {<<Process(a, e), Process2(a, e)>> : a \in RemsArgs, e \in RndStates}
    /\ ret = NoCall

\* rems2.dists, lines 825-840
Rems2Dists ==
    /\ BatchTurn
    /\ ret = NoCall
    /\ rems[Active].pc = "new"
    /\ \E o \in {Rems2_indexes(rems[Active].self)} :
           IF o.raised = "hang"
           THEN /\ rems' = [rems EXCEPT ![Active].self = o.self, ![Active].pc = "hang"]
                /\ UNCHANGED ret
           ELSE IF o.raised # "" THEN RemsRaise(o.self, o.raised)
           ELSE /\ rems' = [rems EXCEPT ![Active].self = o.self,
                                        ![Active].pc = "pairwise"]
                /\ UNCHANGED ret
    /\ UNCHANGED <<kind, ms, pair, prob>>

\* lines 845-859 of a run
Rems2Pairwise ==
    /\ BatchTurn
    /\ rems[Active].pc = "pairwise"
    /\ \E p \in {rems[Active]} : \E o \in {Rems2_pairwise(p.self, p.i)} :
          IF o.raised # "" THEN RemsRaise(o.self, o.raised)
          ELSE \E cidx \in {The(o.self._cidx)[p.i + 1].idx},
                  eqidx \in {The(o.self._eqidx)[p.i + 1]} :
                /\ rems' = [rems EXCEPT
                     ![Active].self = o.self,
                     ![Active].i = p.i + 1,
                     ![Active].pc = IF p.i + 1 < p.self.runs THEN "pairwise"
                                    ELSE "assemble",
                     ![Active].list_dists =
                         Append(@, [k \in DOMAIN o.dists |-> o.dists[k][3]]),
                     ![Active].list_cidx =
                         Append(@, [k \in DOMAIN o.dists |-> cidx[o.dists[k][1] + 1]]),
                     ![Active].list_eqidx =
                         Append(@, [k \in DOMAIN o.dists |-> eqidx[o.dists[k][2] + 1]])]
                /\ UNCHANGED ret
    /\ UNCHANGED <<kind, ms, pair, prob>>

\* lines 865-890: the matrix is put together, cached and returned
Rems2Assemble ==
    /\ BatchTurn
    /\ rems[Active].pc = "assemble"
    /\ \E p \in {rems[Active]} :
       \E dists \in {Rems_assemble(p.self, p.list_dists, p.list_cidx, p.list_eqidx)} :
           /\ rems' = [rems EXCEPT ![Active].self._dists = Some(dists),
                                   ![Active].pc = "done"]
           /\ ret' = [op |-> "dists", raised |-> "", value |-> dists]
    /\ UNCHANGED <<kind, ms, pair, prob>>

\* the client takes the result (or catches the exception) of the call and
\* is free to make the next one; a call changes no object after it returned
Return ==
    /\ ret # NoCall
    /\ ret' = NoCall
    /\ UNCHANGED <<kind, ms, pair, prob, rems>>

(***************************************************************************)
(* Specifications.                                                         *)
(***************************************************************************)
NextSpace == Tree \/ Dists \/ Diagonal \/ FindClosest \/ Return

NextPair == NewPair \/ PairDists \/ PairFindClosest \/ Return

NextProb == Lidx \/ Ridx \/ Ltree \/ Rtree \/ ProbDists \/ ProbFindClosest \/ Return

NextRaster ==
    RemsDists \/ RemsIndexes \/ RemsPairwise \/ RemsReset \/ RemsAssemble \/ Return

NextBatched == NextRaster \/ Rems2Dists \/ Rems2Pairwise \/ Rems2Assemble

NextReuse == NextRaster \/ RemsRetry \/ RemsDistsCached \/ RemsReadCidx \/ RemsReadEqidx

SpecSpace == InitSpace /\ [][NextSpace]_vars

SpecPair == InitPair /\ [][NextPair]_vars

\* the two classes that compute every distance: a MetricSpace or a pair
SpecExact == (InitSpace \/ InitPair) /\ [][NextSpace \/ NextPair]_vars

SpecProb == InitProb /\ [][NextProb]_vars

SpecRaster == InitRaster /\ [][NextRaster]_vars

\* the two samplers
SpecSamplers == (InitProb \/ InitRaster) /\ [][NextProb \/ NextRaster]_vars

\* the loop sampler, then the batched sampler from the same state
SpecBatched == InitBatched /\ [][NextBatched]_vars

\* the loop sampler over a raster with a masked cell
SpecMasked == InitMasked /\ [][NextRaster]_vars

\* one loop sampler that is used again after its dists call
SpecReuse == InitReuse /\ [][NextReuse]_vars

\* the objects the caching is followed on: spaces of distinct points,
\* probabilistic samplers with the generator in one of two states, and loop
\* samplers
InitMemo ==
    /\ InitSpace \/ InitPair \/ InitProb \/ InitReuse
    /\ kind \in {"space", "pair"} =>
          \A k \in DOMAIN ms : Cardinality(Range(ms[k].coords)) = Len(ms[k].coords)
    /\ kind = "prob" => The(prob).rnd \in {0, 1}

\* the four classes that cache what they compute, each used again and again
SpecMemo == InitMemo /\ [][NextSpace \/ NextPair \/ NextProb \/ NextReuse]_vars

Init == InitSpace \/ InitPair \/ InitProb \/ InitRaster \/ InitMasked \/ InitBatched \/ InitReuse

Next == NextSpace \/ NextPair \/ NextProb \/ NextBatched \/ NextReuse

Spec == Init /\ [][Next]_vars

(***************************************************************************)
(* Properties.                                                             *)
(***************************************************************************)
\* the element D[i, j] a read of the matrix gives: the stored value, and 0
\* for a key a sparse matrix does not store
Elem(D, i, j) ==
    IF D.sparse
    THEN IF <<i, j>> \in StoredKeys(D) THEN StoredValue(D, i, j) ELSE 0
    ELSE D.m[i + 1][j + 1]

Stored(D, i, j) == D.sparse => <<i, j>> \in StoredKeys(D)

\* C1: the matrix returned by MetricSpace.dists, dense or sparse, is
\* symmetric (d(i,j) = d(j,i), and (i,j) is stored exactly when (j,i) is) and
\* has a zero diagonal, for all i, j in [0, N).
C1_DistsSymmetricZeroDiagonal ==
    (kind = "space" /\ ret.op = "dists") =>
        LET D == ret.value
        IN  \A i \in Indices(ms[1]) :
               /\ Elem(D, i, i) = 0
               /\ \A j \in Indices(ms[1]) :
                     /\ Elem(D, i, j) = Elem(D, j, i)
                     /\ Stored(D, i, j) <=> Stored(D, j, i)

\* a dense matrix of three points with a nonzero off-diagonal entry was returned
C1_Witness ==
    /\ kind = "space" /\ ret.op = "dists"
    /\ ~ret.value.sparse
    /\ Len(ms[1].coords) = 3
    /\ Elem(ret.value, 2, 0) > 0

\* the left and right point sets of the exact object under test
LeftCoords == ms[1].coords

RightCoords == IF kind = "pair" THEN ms[2].coords ELSE ms[1].coords

\* the radicand of the euclidean distance of two points, written out
SquaredDistance(u, v) == SumSeq([k \in DOMAIN u |-> (u[k] - v[k]) * (u[k] - v[k])])

\* the stored off-diagonal entries of a sparse matrix as (i, j, value) triples
OffDiagonalEntries(D) ==
    {<<k[1], k[2], StoredValue(D, k[1], k[2])>> : k \in {q \in StoredKeys(D) : q[1] # q[2]}}

\* C2: with the euclidean metric and a cutoff c the matrix returned by dists
\* (of a MetricSpace or a MetricSpacePair) is sparse, stores the pair (i, j)
\* exactly when its distance is <= c, with that distance as the value; and on
\* the points 0,1,2,3,10 with c = 2 the stored off-diagonal entries are
\* (0,1)=1, (0,2)=2, (1,2)=1, (1,3)=2, (2,3)=1 and their mirror images.
C2_SparseStoresExactlyWithinCutoff ==
    (kind \in {"space", "pair"} /\ ret.op = "dists"
        /\ ms[1].dist_metric = "euclidean" /\ ms[1].max_dist # None) =>
        LET D == ret.value
            c == The(ms[1].max_dist)
        IN  /\ D.sparse
            /\ \A i \in 0..(Len(LeftCoords) - 1) : \A j \in 0..(Len(RightCoords) - 1) :
                  LET d2 == SquaredDistance(LeftCoords[i + 1], RightCoords[j + 1])
                  IN  /\ <<i, j>> \in StoredKeys(D) <=> d2 <= c * c
                      /\ <<i, j>> \in StoredKeys(D) => StoredValue(D, i, j) = d2
            /\ StoredKeys(D) \subseteq
                  (0..(Len(LeftCoords) - 1)) \X (0..(Len(RightCoords) - 1))
            /\ (LeftCoords = Line5 /\ RightCoords = Line5 /\ c = 2) =>
                  OffDiagonalEntries(D) =
                     {<<0, 1, 1 * 1>>, <<0, 2, 2 * 2>>, <<1, 2, 1 * 1>>,
                      <<1, 3, 2 * 2>>, <<2, 3, 1 * 1>>,
                      <<1, 0, 1 * 1>>, <<2, 0, 2 * 2>>, <<2, 1, 1 * 1>>,
                      <<3, 1, 2 * 2>>, <<3, 2, 1 * 1>>}

\* the sparse matrix of the pair of two 5-point lines with cutoff 2 was returned
C2_Witness ==
    /\ kind = "pair" /\ ret.op = "dists"
    /\ LeftCoords = Line5 /\ RightCoords = Line5
    /\ ms[1].dist_metric = "euclidean" /\ ms[1].max_dist = Some(2)
    /\ <<0, 2>> \in StoredKeys(ret.value)
    /\ <<0, 4>> \notin StoredKeys(ret.value)

\* the cached matrix of the exact object under test
CachedDists == IF kind = "pair" THEN The(The(pair)._dists) ELSE The(ms[1]._dists)

\* the candidates of the find_closest call that has just ended
CallCandidates ==
    candidates(CachedDists, ret.idx,
               EffectiveCut(ms[1].dist_metric, Dim(ms[1]), ms[1].max_dist, ret.max_dist))

\* the distance the cached matrix holds for column j of the row of the call
CallDistance(j) == Elem(CachedDists, ret.idx, j)

\* C3: every find_closest call on a MetricSpace or MetricSpacePair whose
\* cutoff agrees with the object's, also one that leaves N unset, returns: at
\* most N indices; when there are more than N candidates, the N candidates of
\* smallest distance in non-decreasing distance, ties in column order; when
\* there are at most N candidates (or N is unset), the candidates in storage
\* order; and find_closest(0, max_dist=2, N=2) on the points 0,1,2,3,10 with
\* max_dist = 2 returns [1, 2].
C3_FindClosestAsClaimed ==
    (kind \in {"space", "pair"} /\ ret.op = "find_closest"
        /\ ~cutoff_mismatch(ms[1].max_dist, ret.max_dist)) =>
        LET cand == CallCandidates
            cols == [k \in DOMAIN cand |-> cand[k][1]]
            v == ret.value
        IN  /\ ret.raised = ""
            /\ ret.N # None => Len(v) <= The(ret.N)
            /\ (ret.N # None /\ Len(cand) > The(ret.N)) =>
                  /\ Len(v) = The(ret.N)
                  /\ Range(v) \subseteq Range(cols)
                  /\ \A k \in DOMAIN v : \A l \in DOMAIN v :
                        k < l => \/ CallDistance(v[k]) < CallDistance(v[l])
                                 \/ /\ CallDistance(v[k]) = CallDistance(v[l])
                                    /\ v[k] < v[l]
                  /\ \A j \in Range(cols) \ Range(v) : \A k \in DOMAIN v :
                        \/ CallDistance(v[k]) < CallDistance(j)
                        \/ CallDistance(v[k]) = CallDistance(j) /\ v[k] < j
            /\ (ret.N = None \/ Len(cand) <= The(ret.N)) => v = cols
            /\ (LeftCoords = Line5 /\ RightCoords = Line5
                  /\ ms[1].dist_metric = "euclidean" /\ ms[1].max_dist = Some(2)
                  /\ ret.idx = 0 /\ ret.max_dist = Some(2) /\ ret.N = Some(2)) =>
                  v = <<1, 2>>

\* one step of C5: what a call or a construction leaves behind
C5_Step ==
    /\ (kind \in {"space", "pair"} /\ ret = NoCall /\ ret'.op = "find_closest"
          /\ ret'.max_dist # None /\ ms[1].max_dist # None
          /\ ret'.max_dist # ms[1].max_dist) =>
          /\ ret'.raised = "AttributeError"
          /\ ms' = ms
          /\ pair' = pair
    /\ (ret = NoCall /\ ret'.op = "MetricSpacePair") =>
          LET same == /\ ms[1].dist_metric = ms[2].dist_metric
                      /\ ms[1].max_dist = ms[2].max_dist
          IN  /\ ret'.raised # "" <=> ~same
              /\ pair' # None <=> same
    /\ pair' # None =>
          LET p == The(pair')
          IN  /\ ms'[p.ms1].dist_metric = ms'[p.ms2].dist_metric
              /\ ms'[p.ms1].max_dist = ms'[p.ms2].max_dist
              /\ MetricSpacePair_dist_metric(ms'[p.ms1]) = ms'[p.ms2].dist_metric
              /\ MetricSpacePair_max_dist(ms'[p.ms1]) = ms'[p.ms2].max_dist

\* C5: a find_closest call whose max_dist differs from the object's own
\* non-null max_dist raises and leaves the object (its cached matrix and
\* trees) as it was; MetricSpacePair(ms1, ms2) raises exactly when the metrics
\* or the cutoffs differ (None equals None), so every pair that exists has
\* spaces of equal dist_metric and max_dist, which are also the pair's own.
C5_MismatchRejected == [][C5_Step]_vars

\* a pair exists, its matrix is not computed yet, and a find_closest call with
\* a cutoff other than the pair's has just raised
C5_Witness ==
    /\ kind = "pair" /\ pair # None
    /\ The(pair)._dists = None
    /\ ret.op = "find_closest" /\ ret.raised = "AttributeError"
    /\ ms[1].max_dist = Some(2) /\ ret.max_dist = Some(1)

\* the pair under test is built from two identical spaces
IdenticalSpaces ==
    /\ kind = "pair" /\ pair # None
    /\ ms[1].coords = ms[2].coords
    /\ ms[1].dist_metric = ms[2].dist_metric
    /\ ms[1].max_dist = ms[2].max_dist

\* the matrix space.dists returns for the first space of the pair
SpaceDists == The(MetricSpace_dists(ms[1])._dists)

\* the entries (i, j) of the two matrices agree, in value and in being stored
SameEntry(P, S, i, j) ==
    /\ P.sparse = S.sparse
    /\ Elem(P, i, j) = Elem(S, i, j)
    /\ Stored(P, i, j) <=> Stored(S, i, j)

ExpectedDiagonalEntry(D, q, a, b) ==
    IF D.sparse
    THEN IF <<q[a], q[b]>> \in StoredKeys(D)
         THEN StoredValue(D, q[a], q[b]) ELSE Inf
    ELSE D.m[q[a] + 1][q[b] + 1]

\* C10: diagonal(idx) of a MetricSpace returns the upper-triangle flattening
\* (row-major, pairs of positions a < b) of the matrix restricted to idx, the
\* whole matrix when idx is None; with a sparse matrix the entry of a stored
\* pair is the stored distance and that of an absent pair is infinity (never
\* zero); with a dense matrix the entries are those of the matrix.
C10_DiagonalFlattensWithInfinity ==
    (kind = "space" /\ ret.op = "diagonal") =>
        LET D == The(ms[1]._dists)
            q == IF ret.idx = None
                 THEN [k \in 1..Len(ms[1].coords) |-> k - 1] ELSE The(ret.idx)
            n == Len(q)
        IN  /\ ret.raised = ""
            /\ Len(ret.value) = (n * (n - 1)) \div 2
            /\ \A a \in 1..n : \A b \in 1..n :
                  a < b => ret.value[CondensedIndex(a - 1, b - 1, n)]
                              = ExpectedDiagonalEntry(D, q, a, b)

\* a diagonal call on a sparse matrix returned a stored distance > 0 and an
\* infinity
C10_Witness ==
    /\ kind = "space" /\ ret.op = "diagonal"
    /\ The(ms[1]._dists).sparse
    /\ ret.idx # None
    /\ \E a \in DOMAIN ret.value : ret.value[a] = Inf
    /\ \E a \in DOMAIN ret.value : ret.value[a] > 0

\* the object a find_closest call was made on, as the fields the call reads
QueryObject ==
    IF kind = "prob"
    THEN [dist_metric |-> The(prob).dist_metric, max_dist |-> The(prob).max_dist,
          dim |-> Dim(The(prob)), dists |-> The(prob)._dists]
    ELSE [dist_metric |-> ms[1].dist_metric, max_dist |-> ms[1].max_dist,
          dim |-> Dim(ms[1]),
          dists |-> IF kind = "pair" THEN The(pair)._dists ELSE ms[1]._dists]

\* C4: every index j returned by a find_closest(idx, max_dist=c, N) call that
\* does not raise has distance(idx, j) <= the effective cutoff (c when given,
\* otherwise the object's own max_dist), for every object that has
\* find_closest, dense or sparse, also a ProbabalisticMetricSpace built with
\* max_dist=None and queried with a cutoff.
C4_ReturnedWithinEffectiveCutoff ==
    (ret.op = "find_closest" /\ ret.raised = "") =>
        LET q == QueryObject
            cut == EffectiveCut(q.dist_metric, q.dim, q.max_dist, ret.max_dist)
        IN  cut # None =>
               \A k \in DOMAIN ret.value :
                  Elem(The(q.dists), ret.idx, ret.value[k]) <= The(cut)

\* the sampler whose fields C7 is about
Sampler == The(prob)

\* a valid sample: sample_count distinct indices of [0, N)
IsSample(index) ==
    /\ Len(index) = sample_count(Sampler)
    /\ Cardinality(Range(index)) = Len(index)
    /\ Range(index) \subseteq Indices(Sampler)

\* C7: for a ProbabalisticMetricSpace over N points, lidx and ridx each hold
\* exactly sample_count distinct indices of [0, N); the N x N matrix of dists
\* stores entries only at (r, c) with r in lidx and c in ridx, the value at
\* (r, c) is the distance of coords[r] and coords[c], and it is <= max_dist
\* when a cutoff is set.
C7_SampledMatrixInGlobalIndexing ==
    kind = "prob" =>
        /\ Sampler._lidx # None => IsSample(The(Sampler._lidx))
        /\ Sampler._ridx # None => IsSample(The(Sampler._ridx))
        /\ Sampler._dists # None =>
              LET D == The(Sampler._dists)
                  X == Sampler.coords
              IN  /\ D.sparse
                  /\ D.shape = <<Len(X), Len(X)>>
                  /\ Len(D.rows) = Len(X)
                  /\ StoredKeys(D) \subseteq
                        Range(The(Sampler._lidx)) \X Range(The(Sampler._ridx))
                  /\ \A k \in StoredKeys(D) :
                        /\ StoredValue(D, k[1], k[2]) =
                              SquaredDistance(X[k[1] + 1], X[k[2] + 1])
                        /\ Sampler.max_dist # None =>
                              StoredValue(D, k[1], k[2]) <=
                                 The(Sampler.max_dist) * The(Sampler.max_dist)

\* the matrix of a proper sample with different left and right index arrays
\* was built and holds a nonzero distance off the diagonal
C7_Witness ==
    /\ kind = "prob"
    /\ Sampler._dists # None
    /\ sample_count(Sampler) = 2
    /\ Len(Sampler.coords) = 3
    /\ Range(The(Sampler._lidx)) # Range(The(Sampler._ridx))
    /\ \E k \in StoredKeys(The(Sampler._dists)) :
          k[1] # k[2] /\ StoredValue(The(Sampler._dists), k[1], k[2]) > 0

\* the dists calls of both raster objects have ended
BothEnded == kind = "raster" /\ \A p \in 1..2 : rems[p].pc \in {"done", "raised"}

\* the centers, the index sets of every run and the matrix of the two objects agree
SameSampling ==
    /\ rems[1].pc = rems[2].pc
    /\ rems[1].idx_center = rems[2].idx_center
    /\ rems[1].rounds = rems[2].rounds
    /\ rems[1].self._dists = rems[2].self._dists

\* C8: two RasterEquidistantMetricSpace objects constructed with identical
\* coordinates, shape, extent, runs, max_dist and samples and with the same
\* seed passed as rnd draw the same centers, the same center and equidistant
\* index sets in every run, and return identical dists matrices.
C8_SameSeedSameSampling ==
    (BothEnded /\ ~rems[1].args.rnd.instance /\ rems[1].args = rems[2].args)
        => SameSampling

\* the (row, col, distance) triples a raster object has accumulated, in order
Triples(p) ==
    LET d == Flatten(p.list_dists)
        c == Flatten(p.list_cidx)
        eq == Flatten(p.list_eqidx)
    IN  [k \in DOMAIN d |-> <<c[k], eq[k], d[k]>>]

\* the positions in a sequence of triples of the triples with the key (r, c)
Occurrences(triples, r, c) ==
    {k \in DOMAIN triples : triples[k][1] = r /\ triples[k][2] = c}

\* the smallest element of a nonempty set of integers
First(S) == CHOOSE x \in S : \A y \in S : x <= y

\* C9 for the matrix D a raster object has assembled from its triples
DuplicatesDropped(p, D) ==
    LET triples == Triples(p)
        X == p.self.coords
    IN  /\ D.shape = <<Len(X), Len(X)>>
        /\ StoredKeys(D) = {<<triples[k][1], triples[k][2]>> : k \in DOMAIN triples}
        /\ \A r \in DOMAIN D.rows :
              Cardinality({D.rows[r][k][1] : k \in DOMAIN D.rows[r]}) = Len(D.rows[r])
        /\ \A key \in StoredKeys(D) :
              LET occ == Occurrences(triples, key[1], key[2])
                  v == StoredValue(D, key[1], key[2])
              IN  /\ v = triples[First(occ)][3]
                  /\ (Cardinality(occ) > 1 /\ v > 0) =>
                        v # SumSeq([k \in DOMAIN triples |->
                                      IF k \in occ THEN triples[k][3] ELSE 0])
                  /\ v = SquaredDistance(X[key[1] + 1], X[key[2] + 1])
                  /\ ~LengthLess(p.self.max_dist, Length(v, 1, FALSE))

\* C9: in the final N x N matrix of RasterEquidistantMetricSpace.dists a
\* (row, col) key produced by more than one (row, col, distance) triple is
\* stored once, with the value of its first occurrence and never the sum of
\* the duplicates; every stored value is the distance of coords[row] and
\* coords[col] and does not exceed max_dist.
C9_DuplicateKeysKeepFirstValue ==
    kind = "raster" =>
        \A p \in 1..2 :
            rems[p].self._dists # None =>
                DuplicatesDropped(rems[p], The(rems[p].self._dists))

\* a matrix was assembled from triples of two runs that hold the same key
\* with a nonzero distance
C9_Witness ==
    /\ kind = "raster"
    /\ rems[1].self._dists # None
    /\ \E k \in DOMAIN Triples(rems[1]) :
          /\ Triples(rems[1])[k][3] > 0
          /\ Cardinality(Occurrences(Triples(rems[1]), Triples(rems[1])[k][1],
                                     Triples(rems[1])[k][2])) > 1

\* the metric of the sampler in use
SamplerMetric ==
    IF kind = "prob" THEN The(prob).dist_metric ELSE rems[1].self.dist_metric

\* the operations that draw samples or build on them
SamplingOps == {"lidx", "ridx", "ltree", "rtree", "dists"}

\* C11: no sampling draw is fatal for want of candidates: dists of a
\* RasterEquidistantMetricSpace (a ring or disk with too few candidates, a
\* round whose rings are all skipped, more center draws than coordinates) and
\* lidx, ridx, the trees and dists of a ProbabalisticMetricSpace (a
\* sample_count above N) raise nothing; only an unevaluable metric (and, for
\* queries, a cutoff mismatch) is fatal.
C11_NoDrawIsFatal ==
    (kind \in {"prob", "raster"} /\ ret.op \in SamplingOps /\ ret.raised # "")
        => SamplerMetric # "euclidean"

\* the dists calls of the loop sampler and of the batched sampler have ended
BatchedEnded == kind = "batched" /\ \A p \in 1..2 : rems[p].pc \in {"done", "raised"}

\* the ring edges of the two samplers agree, the last outer edge being max_dist
SameEdges(loop, batch) ==
    LET edges == list_inout_radius(The(loop._center_radius), loop.max_dist)
        rad == The(batch._center_radius)
    IN  /\ list_in_radius(rad, batch.max_dist) = SubSeq(edges, 1, Len(edges) - 1)
        /\ list_out_radius(rad, batch.max_dist) = SubSeq(edges, 2, Len(edges))

\* the centers and the index sets of every run agree
SameRounds(rounds, batch) ==
    /\ Len(rounds) = Len(The(batch._centers))
    /\ \A i \in DOMAIN rounds :
          /\ rounds[i].center = The(batch._centers)[i]
          /\ rounds[i].cidx = The(batch._cidx)[i]
          /\ rounds[i].eqidx = The(batch._eqidx)[i]

\* C12: RasterEquidistantMetricSpace2, started from the same generator state
\* with the same arguments as a RasterEquidistantMetricSpace, ends as it does,
\* makes the same draws in the same order, uses the same centers and the same
\* ring edges (the last outer edge equal to max_dist), obtains the same center
\* and equidistant index sets in every run and returns the same matrix.
C12_BatchedEqualsLoop ==
    BatchedEnded =>
        /\ rems[1].pc = rems[2].pc
        /\ rems[1].self.draws = rems[2].self.draws
        /\ (rems[1].pc = "done" /\ rems[2].pc = "done") =>
              /\ SameEdges(rems[1].self, rems[2].self)
              /\ SameRounds(rems[1].rounds, rems[2].self)
              /\ rems[1].self._dists = rems[2].self._dists

\* the objects whose run has just derived its center and its index sets
Indexed == {p \in 1..2 : kind = "raster" /\ rems[p].pc = "pairwise"}

\* the center of the run is one of the coordinates
CenterIsCoordinate(self) == \E k \in DOMAIN self.coords : self.coords[k] = The(self._center)

\* center_radius ^ 2 * pi = sample_count * res ^ 2
RadiusAsClaimed(self) ==
    LET r == The(self._center_radius)
    IN  /\ r.pi
        /\ r.num * self.res.den = Rems_sample_count(self) * self.res.num * r.den

\* the global indices of the coordinates that lie inside the center disk
InDisk(self) ==
    {k - 1 : k \in {j \in DOMAIN self.coords :
        LengthLess(Length(Metric("euclidean", self.coords[j], The(self._center)), 1, FALSE),
                   The(self._center_radius))}}

\* the center sample: floor(m / 2) distinct indices of the disk
CenterSampleAsClaimed(self) ==
    LET cidx == The(self._cidx).idx
    IN  /\ Len(cidx) = Cardinality(InDisk(self)) \div 2
        /\ Cardinality(Range(cidx)) = Len(cidx)
        /\ Range(cidx) \subseteq InDisk(self)

\* C13: in every run the center is one point of the coordinate set, the
\* center radius is sqrt(sample_count / pi) * res, and the center sample is
\* floor(m / 2) distinct global indices at a distance below the radius, m
\* being the number of coordinates inside the disk
C13_CenterAndCenterSample ==
    \A p \in Indexed :
        /\ CenterIsCoordinate(rems[p].self)
        /\ RadiusAsClaimed(rems[p].self)
        /\ CenterSampleAsClaimed(rems[p].self)

\* the edges of the rings of the run an object is in
Edges(self) == list_inout_radius(The(self._center_radius), self.max_dist)

\* the global indices of the coordinates in ring j: inner <= distance < outer
Ring(self, j) ==
    {k - 1 : k \in {n \in DOMAIN self.coords :
        /\ LengthLess(dist_center(self)[n], Edges(self)[j + 1])
        /\ ~LengthLess(dist_center(self)[n], Edges(self)[j])}}

\* the part of the equidistant sample that lies in ring j
Selection(self, j) == SelectIn(The(self._eqidx), Ring(self, j))

\* the number of points a ring contributes when n were drawn and kept of
\* them are left: nothing when fewer than two are left
Contribution(kept) == IF kept > 1 THEN kept ELSE 0

\* the number of points drawn in a ring of m candidates
Drawn(self, m) == Min(m, Rems_sample_count(self))

\* the selections are distinct indices and follow each other in ring order
InRingOrder(self) ==
    LET eqidx == The(self._eqidx)
    IN  /\ Cardinality(Range(eqidx)) = Len(eqidx)
        /\ eqidx = Flatten([j \in 1..(Len(Edges(self)) - 1) |-> Selection(self, j)])

\* C14: the points taken in a ring are distinct global indices at a distance
\* in [inner, outer); up to sample_count candidates are drawn, half of them
\* are kept; a ring left with fewer than two points contributes nothing;
\* eqidx is the concatenation of the selections in ring order
C14_RingSelectionsHalved ==
    \A p \in Indexed :
        /\ InRingOrder(rems[p].self)
        /\ \A j \in 1..(Len(Edges(rems[p].self)) - 1) :
              Len(Selection(rems[p].self, j))
                  = Contribution(Drawn(rems[p].self,
                                       Cardinality(Ring(rems[p].self, j))) \div 2)

\* an object whose construction of the ring edges never ends
Hangs(p) == kind = "raster" /\ rems[p].pc = "hang"

\* the objects that have built the ring edges of a run
Centered == {p \in 1..2 : kind = "raster" /\ rems[p].self._center_radius # None /\ ~Hangs(p)}

\* the edge list starts 0, center_radius, grows by 1.5 from edge to edge,
\* is strictly increasing and ends at max_dist
EdgesAsClaimed(self) ==
    LET edges == Edges(self)
    IN  /\ Len(edges) >= 3
        /\ edges[1] = Length(0, 1, FALSE)
        /\ edges[2] = The(self._center_radius)
        /\ \A k \in 3..(Len(edges) - 1) : edges[k] = Scale(edges[k - 1], 9, 4)
        /\ \A k \in 1..(Len(edges) - 1) : LengthLess(edges[k], edges[k + 1])
        /\ edges[Len(edges)] = self.max_dist

\* C15: the construction of the ring edges ends for every sample size and
\* every positive cutoff, and the edges are 0, center_radius, then 1.5 times
\* the previous edge, strictly increasing, the last one being max_dist
C15_RingEdgesTerminate ==
    \A p \in 1..2 :
        /\ ~Hangs(p)
        /\ p \in Centered => EdgesAsClaimed(rems[p].self)

\* what the draws of an object were made for, in the order they were made
Whats(self) == [k \in DOMAIN self.draws |-> self.draws[k].what]

\* the draws of a whole dists call: the centers, then run after run the
\* center sample and the rings from the inside to the outside
ExpectedDraws(self) ==
    <<"centers">> \o Flatten([i \in 1..self.runs |->
        <<"center sample">> \o [j \in 1..(Len(Edges(self)) - 1) |-> "ring"]])

IsPrefix(a, b) == Len(a) <= Len(b) /\ a = SubSeq(b, 1, Len(a))

RoundLocal(self) == <<self._cidx, self._ctree, self._eqidx, self._eqtree>>

\* the objects of the loop sampler
Loops == IF kind \in {"raster", "reuse"} THEN DOMAIN rems ELSE {}

\* at the start of a run and after the last run nothing of a run exists
UnsetBetweenRounds ==
    \A p \in Loops :
        rems[p].pc \in {"indexes", "assemble"} =>
            RoundLocal(rems[p].self) = <<None, None, None, None>>

\* within a dists call the triples of the runs so far stay as they are
TriplesKept ==
    \A p \in Loops :
        (rems[p].pc \in {"indexes", "pairwise", "reset"} /\ rems'[p].pc # "raised") =>
            /\ IsPrefix(rems[p].list_dists, rems'[p].list_dists)
            /\ IsPrefix(rems[p].list_cidx, rems'[p].list_cidx)
            /\ IsPrefix(rems[p].list_eqidx, rems'[p].list_eqidx)

\* C17: at the start of every run and after the last run of dists the index
\* sets and the trees of a run are unset, and the triples of the earlier runs
\* are left as they are by the reset and by the later runs
C17_RoundStateUnsetBetweenRounds == [](UnsetBetweenRounds) /\ [][TriplesKept]_vars

\* what the object in use has cached, by the name of the read that returns
\* it: None while it is not computed; cidx and eqidx of the loop sampler count
\* once its dists has returned
Cached ==
    IF kind = "space" THEN [dists |-> ms[1]._dists]
    ELSE IF kind = "pair"
    THEN [dists |-> IF pair = None THEN None ELSE The(pair)._dists]
    ELSE IF kind = "prob"
    THEN [dists |-> The(prob)._dists, lidx |-> The(prob)._lidx,
          ridx |-> The(prob)._ridx]
    ELSE IF kind = "reuse"
    THEN [dists |-> rems[1].self._dists,
          cidx |-> IF rems[1].pc = "done" /\ rems[1].self._cidx # None
                   THEN Some(The(rems[1].self._cidx).idx) ELSE None,
          eqidx |-> IF rems[1].pc = "done" THEN rems[1].self._eqidx ELSE None]
    ELSE [dists |-> None]

\* the state of the generator of the object in use
Generator ==
    IF kind = "prob" THEN The(prob).rnd
    ELSE IF kind = "reuse" THEN rems[1].self.rnd
    ELSE 0

\* a step keeps what is cached, a read of it returns it, and no read of a
\* cached matrix draws
Memoized ==
    /\ \A f \in DOMAIN Cached :
          Cached[f] # None =>
              /\ Cached'[f] = Cached[f]
              /\ (ret' # NoCall /\ ret'.op = f /\ ret'.raised = "") =>
                     ret'.value = The(Cached[f])
    /\ (Cached.dists # None /\ ret' # NoCall /\ ret'.op = "dists") =>
          Generator' = Generator

\* the trees and the matrix of the probabilistic sampler are those of the
\* index sets lidx and ridx return
BuiltFromIndexSets ==
    kind = "prob" =>
        LET self == The(prob)
        IN  /\ self._ltree # None =>
                  /\ self._lidx # None
                  /\ self._ltree = Some(cKDTree(Take(self.coords, The(self._lidx))))
            /\ self._rtree # None =>
                  /\ self._ridx # None
                  /\ self._rtree = Some(cKDTree(Take(self.coords, The(self._ridx))))
            /\ self._dists # None =>
                  /\ self._ltree # None /\ self._rtree # None
                  /\ Prob_dists([self EXCEPT !._dists = None]).self = self

\* C18: what dists (and lidx, ridx, cidx, eqidx) has computed is returned by
\* every later read of a MetricSpace, a MetricSpacePair, a
\* ProbabalisticMetricSpace and a RasterEquidistantMetricSpace, whatever is
\* called in between; the matrix is not computed again and no draw changes
\* it; the trees and the matrix of the probabilistic sampler are built from
\* the index sets lidx and ridx return
C18_MemoizedWithoutInvalidation == [](BuiltFromIndexSets) /\ [][Memoized]_vars

\* lidx is read after the matrix of a probabilistic sampler was computed
C18_Witness ==
    /\ kind = "prob"
    /\ The(prob)._dists # None
    /\ ret.op = "lidx"
    /\ ret.raised = ""
    /\ ret.value = The(The(prob)._lidx)

===========================================================================
